---- MODULE Spec2Model ----
(***************************************************************************)
(* Verification model of the UniPage scraping scripts.                     *)
(*                                                                         *)
(* Components modelled, each with its own specification:                   *)
(*   SpecSanitize  DataWriter._sanitize_filename as a pure function        *)
(*   SpecWriter    DataWriter.save_university_data / get_output_path over  *)
(*                 a small file system                                     *)
(*   SpecLinks     the three university-link extractors                    *)
(*   SpecRun       the runs of run_global_scraper, main() and              *)
(*                 FinalAIScraper.scrape_universities                      *)
(*                                                                         *)
(* Text is modelled as a sequence of one-character strings, a path as a    *)
(* sequence of such segments.                                              *)
(***************************************************************************)
EXTENDS Integers, Sequences, FiniteSets, TLC

VARIABLES
    \* ---- SpecSanitize
    s_pc,       \* "start" | "done"
    s_in,       \* the filename given to _sanitize_filename
    s_out,      \* its result
    \* ---- SpecWriter
    w_files,    \* the files on disk: path -> content
    w_dirs,     \* the directories on disk
    w_n,        \* number of save_university_data calls made
    w_call,     \* the last call: arguments, failing step, result, target path
    w_good,     \* history: path -> data of the latest successful save to it
    \* ---- SpecLinks
    l_pc,       \* "start" | "done"
    l_fn,       \* the extractor that ran
    l_page,     \* the anchors of the page, in document order
    l_scan,     \* "ok", or "fails": reading the page from the browser raises
    l_result,   \* the list the extractor produced
    \* ---- SpecRun
    r_prog,     \* "global" | "main" | "final" | "ainav": the program that runs
    r_pc,       \* its position
    r_driver,   \* the browser session: "none" | "open" | "closed"
    r_quits,    \* number of quit() calls on the session
    r_loads,    \* number of page loads issued
    r_late,     \* number of page loads issued after the session was closed
    r_outcome,  \* "running" | "returned" | "raised"
    r_exc,      \* the step whose exception is propagating or was caught at top level
    r_countries,\* the countries the run goes through
    r_ci,       \* index of the current country
    r_cur,      \* what happened to the country whose pass ran last
    r_links,    \* the university links of the current country or page
    r_ui,       \* index of the current university
    r_last,     \* what happened to the university processed last
    r_files,    \* the output files
    r_dirs,     \* the output directories
    r_results,  \* all_results (global), universities (final)
    r_total,    \* total_universities (global)
    r_summary,  \* the summary or result the run produced
    r_sitemap,  \* the university URLs of the site's sitemap
    r_tried,    \* final, ainav: per pass of the loop, whether it gave a record
    \* ---- SpecCalls
    p_pc,       \* "start" | "done"
    p_fn,       \* the function called
    p_in,       \* its arguments and what its collaborators do
    p_out,      \* what it returned and did
    \* ---- SpecExtractor
    e_self,     \* the Extractor object: the number of errors it has logged
    e_calls     \* the calls made so far: function, page, result

sanVars == <<s_pc, s_in, s_out>>
wVars == <<w_files, w_dirs, w_n, w_call, w_good>>
lVars == <<l_pc, l_fn, l_page, l_scan, l_result>>
rVars == <<r_prog, r_pc, r_driver, r_quits, r_loads, r_late, r_outcome, r_exc, r_countries,
           r_ci, r_cur, r_links, r_ui, r_last, r_files, r_dirs, r_results, r_total,
           r_summary, r_sitemap, r_tried>>
pVars == <<p_pc, p_fn, p_in, p_out>>
eVars == <<e_self, e_calls>>
vars == <<s_pc, s_in, s_out, w_files, w_dirs, w_n, w_call, w_good,
          l_pc, l_fn, l_page, l_scan, l_result,
          r_prog, r_pc, r_driver, r_quits, r_loads, r_late, r_outcome, r_exc, r_countries,
          r_ci, r_cur, r_links, r_ui, r_last, r_files, r_dirs, r_results, r_total,
          r_summary, r_sitemap, r_tried, p_pc, p_fn, p_in, p_out, e_self, e_calls>>

(***************************************************************************)
(* Bounds of the model                                                     *)
(***************************************************************************)
MaxNameLen == 3
MaxSaves == 2
MaxAnchors == 3
MaxCountries == 2

(***************************************************************************)
(* Text                                                                    *)
(***************************************************************************)
\* re.sub(r'[<>:"/\\|?*]', ...): the characters of the class
IllegalChars == {"<", ">", ":", "\"", "/", "\\", "|", "?", "*"}

\* characters matched by \s that the model's inputs use
WhitespaceChars == {" ", "\t"}

\* len(sanitized) > 200
MaxFilenameLen == 200

Concat(ss) == ss[1] \o ss[2] \o ss[3]

Rep(c, n) == [i \in 1..n |-> c]

Take(s, n) == IF Len(s) <= n THEN s ELSE SubSeq(s, 1, n)

\* sanitized = re.sub(r'[<>:"/\\|?*]', '_', filename)
ReplaceIllegal(s) == [i \in 1..Len(s) |-> IF s[i] \in IllegalChars THEN "_" ELSE s[i]]

\* sanitized = re.sub(r'[_\s]+', '_', sanitized): every maximal run of
\* underscores and whitespace becomes one underscore
CollapseRuns(s) ==
    LET sep(i) == s[i] \in ({"_"} \cup WhitespaceChars)
        marked == [i \in 1..Len(s) |->
                     IF ~sep(i) THEN s[i]
                     ELSE IF i > 1 /\ sep(i - 1) THEN "dropped"
                     ELSE "_"]
    IN SelectSeq(marked, LAMBDA c : c # "dropped")

\* sanitized = sanitized.strip('_ ')
StripEnds(s) ==
    LET drop == {"_", " "}
        inner == {i \in 1..Len(s) : s[i] \notin drop}
        Min(S) == CHOOSE x \in S : \A y \in S : x <= y
        Max(S) == CHOOSE x \in S : \A y \in S : x >= y
    IN IF inner = {} THEN <<>> ELSE SubSeq(s, Min(inner), Max(inner))

\* Variant: the illegal characters are removed, not replaced.
sanitize_removing(filename) ==
    Take(StripEnds(CollapseRuns(SelectSeq(filename, LAMBDA c : c \notin IllegalChars))),
         MaxFilenameLen)

\* DataWriter._sanitize_filename
_sanitize_filename(filename) ==
    Take(StripEnds(CollapseRuns(ReplaceIllegal(filename))), MaxFilenameLen)

(***************************************************************************)
(* SpecSanitize: _sanitize_filename applied to one input                   *)
(***************************************************************************)
SanAlphabet == IllegalChars \cup WhitespaceChars \cup {"_", "A", "B"}

RECURSIVE StringsUpTo(_, _)
StringsUpTo(alphabet, n) ==
    IF n = 0 THEN {<<>>}
    ELSE LET shorter == StringsUpTo(alphabet, n - 1)
         IN shorter \cup {Append(s, c) : s \in {t \in shorter : Len(t) = n - 1}, c \in alphabet}

Str_A_colon_B_slash_C == <<"A", ":", "B", "/", "C">>
Str_A_B_C == <<"A", "_", "B", "_", "C">>

\* inputs longer than the cap, and inputs at the cap
LongInputs ==
    { Rep("a", MaxFilenameLen + 1),
      Rep("a", MaxFilenameLen),
      Rep("a", MaxFilenameLen - 1) \o <<" ", "b">>,
      Rep("a", MaxFilenameLen - 1) \o <<":", "/", "b", "?">>,
      <<" ", "_">> \o Rep("b", MaxFilenameLen) \o <<"*">>,
      Rep("/", MaxFilenameLen + 2) }

SanInputs == StringsUpTo(SanAlphabet, MaxNameLen) \cup LongInputs \cup {Str_A_colon_B_slash_C}

Sanitize ==
    /\ s_pc = "start"
    /\ s_out' = _sanitize_filename(s_in)
    /\ s_pc' = "done"
    /\ UNCHANGED <<s_in, wVars, lVars, rVars, pVars, eVars>>

\* C9: the result of _sanitize_filename has at most 200 characters, holds no
\* character of < > : " / \ | ? * and no whitespace; an illegal character
\* between two legal characters becomes exactly one underscore between them,
\* and "A:B/C" gives "A_B_C".
IsLegal(c) == c \notin (IllegalChars \cup WhitespaceChars \cup {"_"})

PyStr(s) == [t |-> "str", s |-> s, xs |-> <<>>, items |-> <<>>]
PyList(xs) == [t |-> "list", s |-> "", xs |-> xs, items |-> <<>>]
PyDict(f) == [t |-> "dict", s |-> "", xs |-> <<>>, items |-> f]
PyObject == [t |-> "object", s |-> "datetime", xs |-> <<>>, items |-> <<>>]

JString(s) == [t |-> "string", s |-> s, xs |-> <<>>]
JArray(xs) == [t |-> "array", s |-> "", xs |-> xs]
JObject(members) == [t |-> "object", s |-> "", xs |-> members]

\* the keys the model's records use, in sorted order
KeyOrder == <<"city", "location", "main_info", "name", "programs", "quick_facts", "scraped_at",
              "university_name">>

SortedKeys(S) == SelectSeq(KeyOrder, LAMBDA k : k \in S)

\* whether json.dump accepts the value (it raises TypeError otherwise)
RECURSIVE Serializable(_)
Serializable(v) ==
    CASE v.t = "str" -> TRUE
      [] v.t = "list" -> \A i \in 1..Len(v.xs) : Serializable(v.xs[i])
      [] v.t = "dict" -> \A k \in DOMAIN v.items : Serializable(v.items[k])
      [] OTHER -> FALSE

\* json.dump(data_dict, f, indent=2, ensure_ascii=False, sort_keys=True)
RECURSIVE json_dump(_)
json_dump(v) ==
    CASE v.t = "str" -> JString(v.s)
      [] v.t = "list" -> JArray([i \in 1..Len(v.xs) |-> json_dump(v.xs[i])])
      [] OTHER ->
           LET keys == SortedKeys(DOMAIN v.items)
           IN JObject([i \in 1..Len(keys) |-> [k |-> keys[i], v |-> json_dump(v.items[keys[i]])]])

\* json.load of a file written by json_dump
RECURSIVE json_load(_)
json_load(doc) ==
    CASE doc.t = "string" -> PyStr(doc.s)
      [] doc.t = "array" -> PyList([i \in 1..Len(doc.xs) |-> json_load(doc.xs[i])])
      [] OTHER ->
           LET member(k) == CHOOSE i \in 1..Len(doc.xs) : doc.xs[i].k = k
           IN PyDict([k \in {doc.xs[i].k : i \in 1..Len(doc.xs)} |-> json_load(doc.xs[member(k)].v)])

\* a file json.dump finished, and a file left truncated or half written
CompleteFile(doc) == [kind |-> "json", doc |-> doc]
PartialFile == [kind |-> "partial", doc |-> JString("")]

(***************************************************************************)
(* DataWriter                                                              *)
(***************************************************************************)
\* a value that is not a str (None, a list): re.sub raises TypeError on it
NotAStr == <<"<None>">>

DotJson == <<".", "j", "s", "o", "n">>

\* self.base_output_path = Path("unipage_data/")
base_output_path == << <<"unipage_data">> >>

\* pathlib's "/": an empty segment and "." add nothing to the path
PathJoin(p, seg) == IF seg \in {<<>>, <<".">>} THEN p ELSE Append(p, seg)

\* Variant: the file name is taken from the raw university name.
output_file_raw_name(country, city, uni_name) ==
    PathJoin(PathJoin(PathJoin(base_output_path, _sanitize_filename(country)),
                      _sanitize_filename(city)),
             uni_name \o DotJson)

\* save_university_data: output_dir / f"{sanitized_uni_name}.json"
output_file(country, city, uni_name) ==
    LET sanitized_country == _sanitize_filename(country)
        sanitized_city == _sanitize_filename(city)
        sanitized_uni_name == _sanitize_filename(uni_name)
        output_dir == PathJoin(PathJoin(base_output_path, sanitized_country), sanitized_city)
    IN PathJoin(output_dir, sanitized_uni_name \o DotJson)

\* DataWriter.get_output_path
get_output_path(country, city, uni_name) ==
    LET sanitized_country == _sanitize_filename(country)
        sanitized_city == _sanitize_filename(city)
        sanitized_uni_name == _sanitize_filename(uni_name)
    IN PathJoin(PathJoin(PathJoin(base_output_path, sanitized_country), sanitized_city),
                sanitized_uni_name \o DotJson)

Prefixes(p) == {SubSeq(p, 1, n) : n \in 1..Len(p)}

Parent(p) == SubSeq(p, 1, Len(p) - 1)

\* output_dir.mkdir(parents=True, exist_ok=True): the directories it creates,
\* up to the first ancestor that exists as a file
MkdirCreates(files, dir) ==
    {q \in Prefixes(dir) : \A r \in Prefixes(q) : r \notin DOMAIN files}

MkdirFails(files, dir, env) ==
    env = "mkdir" \/ \E r \in Prefixes(dir) : r \in DOMAIN files

\* open(output_file, 'w', encoding='utf-8')
OpenFails(dirs, file, env) == env = "open" \/ file \in dirs

\* The body of the try block of save_university_data: the file system it
\* leaves, the step that failed and the exception that step raised.
\* env is what the operating system does: "ok", or a failure of "mkdir",
\* of "open", or of a "write" while json.dump is running.
save_try_block(files, dirs, country, city, uni_name, data, env) ==
    IF NotAStr \in {country, city, uni_name}
    THEN [files |-> files, dirs |-> dirs, failed |-> "sanitize", exc |-> "TypeError",
          path |-> <<>>]
    ELSE
    LET file == output_file(country, city, uni_name)
        dir == Parent(file)
        dirs1 == dirs \cup MkdirCreates(files, dir)
    IN IF MkdirFails(files, dir, env)
       THEN [files |-> files, dirs |-> IF env = "mkdir" THEN dirs ELSE dirs1,
             failed |-> "mkdir", exc |-> "OSError", path |-> file]
       ELSE IF OpenFails(dirs1, file, env)
       THEN [files |-> files, dirs |-> dirs1, failed |-> "open", exc |-> "OSError",
             path |-> file]
       ELSE IF ~Serializable(data)
       THEN [files |-> (file :> PartialFile) @@ files, dirs |-> dirs1,
             failed |-> "dump", exc |-> "TypeError", path |-> file]
       ELSE IF env = "write"
       THEN [files |-> (file :> PartialFile) @@ files, dirs |-> dirs1,
             failed |-> "dump", exc |-> "OSError", path |-> file]
       ELSE [files |-> (file :> CompleteFile(json_dump(data))) @@ files, dirs |-> dirs1,
             failed |-> "none", exc |-> "none", path |-> file]

\* Variant: the handler catches OSError only.
save_result_oserror_only(exc) ==
    IF exc = "none" THEN "True" ELSE IF exc = "OSError" THEN "False" ELSE "raised"

\* return True at the end of the try block; except Exception: return False
save_result(exc) == IF exc = "none" THEN "True" ELSE "False"

\* DataWriter.save_university_data
save_university_data(files, dirs, country, city, uni_name, data, env) ==
    LET r == save_try_block(files, dirs, country, city, uni_name, data, env)
    IN [files |-> r.files, dirs |-> r.dirs, failed |-> r.failed, path |-> r.path,
        ret |-> save_result(r.exc)]

(***************************************************************************)
(* SpecWriter: a sequence of save_university_data calls on one DataWriter  *)
(***************************************************************************)
Turkey == <<"T", "u", "r", "k", "e", "y">>
Ankara == <<"A", "n", "k", "a", "r", "a">>
BilkentUniversity ==
    <<"B", "i", "l", "k", "e", "n", "t", " ", "U", "n", "i", "v", "e", "r", "s", "i", "t", "y">>
Bilkent_University ==
    <<"B", "i", "l", "k", "e", "n", "t", "_", "U", "n", "i", "v", "e", "r", "s", "i", "t", "y">>

TurkeyTriple == <<Turkey, Ankara, BilkentUniversity>>

\* the (country, city, uni_name) triples of the calls
WTriples ==
    { TurkeyTriple,
      <<Turkey, Ankara, Bilkent_University>>,            \* same path as TurkeyTriple
      <<Turkey, Ankara, <<"A", ":", "B">> >>,
      <<<<"?">>, <<>>, <<"A", " ", "B">> >>,               \* file directly under the base
      <<<<"A", "_", "B">> \o DotJson, Ankara, <<"A", ":", "B">> >>,  \* directory named like that file
      <<Turkey, NotAStr, <<"A", ":", "B">> >>,
      <<<<".", ".">>, Ankara, BilkentUniversity>> }          \* a country named ".."

Rec1 == PyDict(("name" :> PyStr("Bilkent")) @@
               ("programs" :> PyList(<<PyStr("CS"), PyStr("EE")>>)))
Rec2 == PyDict(("name" :> PyStr("METU")) @@
               ("main_info" :> PyDict(("city" :> PyStr("Ankara")))))
RecBad == PyDict(("name" :> PyStr("Bilkent")) @@ ("scraped_at" :> PyObject))

WRecords == {Rec1, Rec2, RecBad}

WEnvs == {"ok", "mkdir", "open", "write"}

Save ==
    /\ w_n < MaxSaves
    /\ \E triple \in WTriples, data \in WRecords, env \in WEnvs :
          LET r == save_university_data(w_files, w_dirs, triple[1], triple[2], triple[3],
                                        data, env)
          IN /\ w_files' = r.files
             /\ w_dirs' = r.dirs
             /\ w_call' = [country |-> triple[1], city |-> triple[2], uni_name |-> triple[3],
                           data |-> data, failed |-> r.failed, ret |-> r.ret,
                           path |-> r.path]
             /\ w_good' = IF r.ret = "True" THEN (r.path :> data) @@ w_good ELSE w_good
    /\ w_n' = w_n + 1
    /\ UNCHANGED <<sanVars, lVars, rVars, pVars, eVars>>

Called == w_call.ret # "none"

C8_FileHoldsLatestGoodSave ==
    \A p \in DOMAIN w_good :
        /\ p \in DOMAIN w_files
        /\ w_files[p].kind = "json"
        /\ json_load(w_files[p].doc) = w_good[p]

\* C27: when save_university_data returns False, the file that was stored at
\* the target path before the call, if any, is unchanged by the call.
FailedSaveKeepsFile ==
    (w_call'.ret = "False" /\ w_call'.path \in DOMAIN w_files)
        => w_files'[w_call'.path] = w_files[w_call'.path]
C27_FailedSaveLeavesFile == [][FailedSaveKeepsFile]_vars

\* a save that failed before the file was opened leaves every file as it was
FailedBeforeOpenKeepsFiles ==
    [][w_call'.failed \in {"sanitize", "mkdir", "open"} => w_files' = w_files]_vars

\* C28: the path save_university_data writes lies inside base_output_path at
\* depth exactly three (country directory, city directory, file): no
\* sanitized segment is empty, "." or "..".
DotSegments == {<<>>, <<".">>, <<".", ".">>}
C28_PathAtDepthThreeInsideBase ==
    (Called /\ w_call.ret = "True") =>
        /\ Len(w_call.path) = Len(base_output_path) + 3
        /\ SubSeq(w_call.path, 1, Len(base_output_path)) = base_output_path
        /\ _sanitize_filename(w_call.country) \notin DotSegments
        /\ _sanitize_filename(w_call.city) \notin DotSegments
        /\ _sanitize_filename(w_call.uni_name) \notin DotSegments

\* a country of ".." is kept by _sanitize_filename: the file is written under
\* the parent of the base directory
WrittenAboveBase ==
    /\ Called /\ w_call.ret = "True"
    /\ w_call.path = base_output_path \o <<<<".", ".">>, Ankara, Bilkent_University \o DotJson>>
    /\ w_call.path \in DOMAIN w_files

\* a country that sanitizes to nothing: the file is written one level up
WrittenAtDepthTwo ==
    /\ Called /\ w_call.ret = "True"
    /\ _sanitize_filename(w_call.country) = <<>>
    /\ Len(w_call.path) < Len(base_output_path) + 3

\* C10: save_university_data never raises; it returns True exactly when no
\* step failed, and then the directory exists and the file holds the whole
\* record; it returns False when sanitizing, directory creation, opening the
\* file or serializing the record failed.
C10_SaveReturnsBool ==
    Called =>
        /\ w_call.ret \in {"True", "False"}
        /\ (w_call.failed \in {"sanitize", "mkdir", "open", "dump"} => w_call.ret = "False")
        /\ (w_call.failed = "none" => w_call.ret = "True")
        /\ (w_call.ret = "True" =>
               /\ Parent(w_call.path) \in w_dirs
               /\ w_call.path \in DOMAIN w_files
               /\ w_files[w_call.path] = CompleteFile(json_dump(w_call.data)))

C10_Witness ==
    /\ Called
    /\ w_call.failed = "dump"
    /\ w_call.data = RecBad
    /\ w_call.ret = "False"

(***************************************************************************)
(* University links                                                        *)
(*                                                                         *)
(* A URL is the sequence of the pieces between its slashes:                *)
(* https://www.unipage.net/en/1/koc is                                     *)
(* <<"https:", "", "www.unipage.net", "en", "1", "koc">>.                  *)
(***************************************************************************)
\* pieces that consist of digits only (\d+ up to the next slash)
SitemapIds == {ToString(n) : n \in 101..152}

DigitPieces == {"1", "22"} \cup SitemapIds

\* pieces that begin with "?" ([^/?]+ does not match at their start)
QueryPieces == {"?page=2"}

NoHref == <<>>

\* an <a> element: its href (NoHref when it has none), its text, and whether
\* reading its attributes raises (a stale element)
Anchor(href, text, stale) == [href |-> href, text |-> text, stale |-> stale]

Range(seq) == {seq[i] : i \in 1..Len(seq)}

\* list(dict.fromkeys(seq)), taking the last position of a repeated key
KeepLastOccurrence(seq) ==
    SelectSeq([i \in 1..Len(seq) |->
                 IF \E j \in (i + 1)..Len(seq) : seq[j] = seq[i] THEN <<"dropped">> ELSE seq[i]],
              LAMBDA u : u # <<"dropped">>)

\* list(seq): no key is dropped
KeepEveryOccurrence(seq) == seq

\* list(dict.fromkeys(seq)): keys are inserted in order, a key already
\* present keeps its place
DictFromKeys(seq) ==
    LET F[i \in 0..Len(seq)] ==
            IF i = 0 THEN <<>>
            ELSE IF seq[i] \in Range(F[i - 1]) THEN F[i - 1]
            ELSE Append(F[i - 1], seq[i])
    IN F[Len(seq)]

\* re.match(r'https?://[^/]+/en/\d+/[^/]+', href)
NavigatorPattern(href) ==
    /\ Len(href) >= 6
    /\ href[1] \in {"http:", "https:"}
    /\ href[2] = ""
    /\ href[3] # ""
    /\ href[4] = "en"
    /\ href[5] \in DigitPieces
    /\ href[6] # ""

\* "/en/" in href
ContainsEn(href) == \E i \in 2..(Len(href) - 1) : href[i] = "en"

\* any(keyword in text.lower() for keyword in university_keywords)
KeywordTexts == {"Koc University", "About the university", "Art School"}

HasUniversityKeyword(text) == text \in KeywordTexts

\* Navigator.get_university_links
get_university_links(page, scan) ==
    IF scan = "fails" THEN <<>>
    ELSE
    LET hrefs == [i \in 1..Len(page) |->
                    IF ~page[i].stale /\ page[i].href # NoHref /\ NavigatorPattern(page[i].href)
                    THEN page[i].href ELSE <<"dropped">>]
        university_links == SelectSeq(hrefs, LAMBDA u : u # <<"dropped">>)
        unique_links == DictFromKeys(university_links)
        alts == [i \in 1..Len(page) |->
                    IF /\ ~page[i].stale
                       /\ page[i].href # NoHref
                       /\ page[i].text # ""
                       /\ HasUniversityKeyword(page[i].text)
                       /\ ContainsEn(page[i].href)
                    THEN page[i].href ELSE <<"dropped">>]
        alternative_links == SelectSeq(alts, LAMBDA u : u # <<"dropped">>)
    IN IF Len(unique_links) = 0 /\ alternative_links # <<>>
       THEN DictFromKeys(alternative_links)
       ELSE unique_links

\* re.findall(r'href="([^"]*\/en\/\d+\/[^"]*)"', page_html)
FinalPattern(href) ==
    \E i \in 2..(Len(href) - 2) : href[i] = "en" /\ href[i + 1] \in DigitPieces

\* full_url = f"https://www.unipage.net{link}" if link.startswith('/')
FullUrl(link) ==
    IF Len(link) >= 2 /\ link[1] = ""
    THEN <<"https:", "", "www.unipage.net">> \o Tail(link)
    ELSE link

\* FinalAIScraper.scrape_universities, step 2: unique_links
final_unique_links(page) ==
    LET found == SelectSeq([i \in 1..Len(page) |->
                              IF page[i].href # NoHref /\ FinalPattern(page[i].href)
                              THEN page[i].href ELSE <<"dropped">>],
                           LAMBDA u : u # <<"dropped">>)
        full_links == [i \in 1..Len(found) |-> FullUrl(found[i])]
    IN DictFromKeys(full_links)

\* university_pattern = re.compile(r"/ru/(\d+)/([^/?]+)"); .search(href)
CountryPatternAt(href, i) ==
    /\ i >= 2
    /\ i + 2 <= Len(href)
    /\ href[i] = "ru"
    /\ href[i + 1] \in DigitPieces
    /\ href[i + 2] # ""
    /\ href[i + 2] \notin QueryPieces

CountryPattern(href) == \E i \in 1..Len(href) : CountryPatternAt(href, i)

\* the first match: match.group(1), match.group(2)
CountryMatch(href) ==
    LET i == CHOOSE k \in 1..Len(href) :
                 CountryPatternAt(href, k) /\ \A m \in 1..(k - 1) : ~CountryPatternAt(href, m)
    IN [id |-> href[i + 1], slug |-> href[i + 2]]

\* scrape_country_universities, after the page was loaded: the list it returns
country_universities(page, scan) ==
    IF scan = "fails" \/ \E i \in 1..Len(page) : page[i].stale THEN <<>>
    ELSE
    LET found == SelectSeq([i \in 1..Len(page) |->
                              IF page[i].href # NoHref /\ CountryPattern(page[i].href)
                              THEN [id |-> CountryMatch(page[i].href).id,
                                    name |-> IF page[i].text # "" THEN page[i].text
                                             ELSE CountryMatch(page[i].href).slug,
                                    url |-> page[i].href,
                                    slug |-> CountryMatch(page[i].href).slug]
                              ELSE [id |-> "", name |-> "", url |-> NoHref, slug |-> ""]],
                           LAMBDA u : u.url # NoHref)
        unique_unis[i \in 0..Len(found)] ==
            IF i = 0 THEN <<>>
            ELSE IF \E j \in 1..Len(unique_unis[i - 1]) : unique_unis[i - 1][j].url = found[i].url
            THEN unique_unis[i - 1]
            ELSE Append(unique_unis[i - 1], found[i])
    IN unique_unis[Len(found)]

(***************************************************************************)
(* SpecLinks: one extractor applied to one page                            *)
(***************************************************************************)
Host == <<"https:", "", "www.unipage.net">>

Anchors ==
    { Anchor(Host \o <<"en", "1", "koc">>, "Koc University", FALSE),
      Anchor(Host \o <<"en", "22", "metu">>, "", FALSE),
      Anchor(<<"", "en", "1", "koc">>, "Koc", FALSE),
      Anchor(Host \o <<"ru", "1", "koc">>, "Koc University", FALSE),
      Anchor(Host \o <<"ru", "22", "metu">>, "", FALSE),
      Anchor(Host \o <<"ru", "22", "?page=2">>, "next", FALSE),
      Anchor(Host \o <<"en", "about", "">>, "About the university", FALSE),
      Anchor(Host \o <<"en", "countries">>, "Countries", FALSE),
      Anchor(NoHref, "menu", FALSE),
      Anchor(Host \o <<"en", "22", "metu">>, "METU", TRUE) }

\* the country pages the global run meets
GlobalPages ==
    { <<>>,
      <<Anchor(Host \o <<"ru", "1", "koc">>, "Koc University", FALSE)>>,
      <<Anchor(Host \o <<"ru", "1", "koc">>, "Koc University", FALSE),
        Anchor(Host \o <<"ru", "22", "metu">>, "", FALSE),
        Anchor(Host \o <<"ru", "1", "koc">>, "", FALSE)>>,
      <<Anchor(Host \o <<"ru", "22", "metu">>, "METU", TRUE)>>,
      <<Anchor(Host \o <<"en", "countries">>, "Countries", FALSE)>> }

\* the listing pages the final scraper meets
FinalPages ==
    { <<>>,
      <<Anchor(Host \o <<"en", "1", "koc">>, "Koc University", FALSE),
        Anchor(<<"", "en", "1", "koc">>, "Koc", FALSE),
        Anchor(Host \o <<"en", "22", "metu">>, "", FALSE)>>,
      [i \in 1..6 |-> Anchor(Host \o <<"en", "1", <<"koc", "metu", "itu", "ege", "gazi", "bilkent">>[i]>>,
                             "", FALSE)] }

RECURSIVE PagesUpTo(_)
PagesUpTo(n) ==
    IF n = 0 THEN {<<>>}
    ELSE LET shorter == PagesUpTo(n - 1)
         IN shorter \cup {Append(p, a) : p \in {q \in shorter : Len(q) = n - 1}, a \in Anchors}

Pages == PagesUpTo(MaxAnchors)

GetUniversityLinks ==
    /\ l_pc = "start"
    /\ l_result' = get_university_links(l_page, l_scan)
    /\ l_fn' = "get_university_links"
    /\ l_pc' = "done"
    /\ UNCHANGED <<l_page, l_scan, sanVars, wVars, rVars, pVars,
                   eVars>>

\* a failure to read page_source leaves scrape_universities without a list
FinalUniqueLinks ==
    /\ l_pc = "start"
    /\ l_scan = "ok"
    /\ l_result' = final_unique_links(l_page)
    /\ l_fn' = "scrape_universities"
    /\ l_pc' = "done"
    /\ UNCHANGED <<l_page, l_scan, sanVars, wVars, rVars, pVars,
                   eVars>>

CountryUniversities ==
    /\ l_pc = "start"
    /\ l_result' = country_universities(l_page, l_scan)
    /\ l_fn' = "scrape_country_universities"
    /\ l_pc' = "done"
    /\ UNCHANGED <<l_page, l_scan, sanVars, wVars, rVars, pVars,
                   eVars>>

LinksNext == GetUniversityLinks \/ FinalUniqueLinks \/ CountryUniversities

\* the anchors whose href an extractor can read: scrape_universities reads
\* them from the HTML text, the others from the elements
Readable(fn, page) ==
    SelectSeq(page, LAMBDA a : a.href # NoHref /\ (fn = "scrape_universities" \/ ~a.stale))

\* the URL an extractor sees in an anchor, and whether it matches its pattern
SeenUrl(fn, a) == IF fn = "scrape_universities" THEN FullUrl(a.href) ELSE a.href

Matches(fn, a) ==
    CASE fn = "get_university_links" -> NavigatorPattern(a.href)
      [] fn = "scrape_universities" -> FinalPattern(a.href)
      [] OTHER -> CountryPattern(a.href)

\* the URLs of the produced list
ResultUrls ==
    IF l_fn = "scrape_country_universities"
    THEN [i \in 1..Len(l_result) |-> l_result[i].url]
    ELSE l_result

FirstIndex(url, seq) == CHOOSE i \in 1..Len(seq) : seq[i] = url /\ \A j \in 1..(i - 1) : seq[j] # url

\* the page was read without an error
Scanned ==
    /\ l_pc = "done"
    /\ l_scan = "ok"
    /\ (l_fn = "scrape_country_universities" => \A i \in 1..Len(l_page) : ~l_page[i].stale)

\* C4: the list holds every matching URL exactly once, and its URLs stand in
\* the order of their first occurrence on the page.
C4_DedupFirstSeenOrder ==
    Scanned =>
        LET seen == [i \in 1..Len(Readable(l_fn, l_page)) |-> SeenUrl(l_fn, Readable(l_fn, l_page)[i])]
            matching == {SeenUrl(l_fn, a) : a \in {b \in Range(Readable(l_fn, l_page)) : Matches(l_fn, b)}}
            urls == ResultUrls
        IN /\ \A u \in matching : Cardinality({i \in 1..Len(urls) : urls[i] = u}) = 1
           /\ \A i, j \in 1..Len(urls) : i # j => urls[i] # urls[j]
           /\ \A i \in 1..Len(urls) : urls[i] \in Range(seen)
           /\ \A i, j \in 1..Len(urls) :
                 i < j => FirstIndex(urls[i], seen) < FirstIndex(urls[j], seen)

C4_Witness ==
    /\ Scanned
    /\ l_fn = "scrape_universities"
    /\ Len(l_page) = 3
    /\ l_page[1].href = <<"", "en", "1", "koc">>
    /\ l_page[2].href = Host \o <<"en", "22", "metu">>
    /\ l_page[3].href = Host \o <<"en", "1", "koc">>
    /\ l_result = <<Host \o <<"en", "1", "koc">>, Host \o <<"en", "22", "metu">> >>

\* the matching hrefs of the anchors get_university_links can read
NavigatorMatching(page) ==
    {a.href : a \in {b \in Range(Readable("get_university_links", page)) : NavigatorPattern(b.href)}}

\* the hrefs its keyword fallback accepts
NavigatorAlternative(page) ==
    {a.href : a \in {b \in Range(Readable("get_university_links", page)) :
                        b.text # "" /\ HasUniversityKeyword(b.text) /\ ContainsEn(b.href)}}

\* C5 as stated: get_university_links returns exactly the distinct hrefs
\* that match the university URL pattern (nothing when no anchor matches).
C5_ExactlyMatching ==
    (Scanned /\ l_fn = "get_university_links") =>
        /\ Range(l_result) = NavigatorMatching(l_page)
        /\ Len(l_result) = Cardinality(NavigatorMatching(l_page))

\* C5 amended: when at least one href matches the pattern the result is
\* exactly the distinct matching hrefs; when none matches it is exactly the
\* distinct hrefs containing /en/ of the anchors whose text holds a
\* university keyword (empty when there is none).  Either way the set
\* depends on the set of anchors only, not on their order or number.
C5_MatchingOrKeywordFallback ==
    (Scanned /\ l_fn = "get_university_links") =>
        LET expected == IF NavigatorMatching(l_page) # {} THEN NavigatorMatching(l_page)
                        ELSE NavigatorAlternative(l_page)
        IN /\ Range(l_result) = expected
           /\ Len(l_result) = Cardinality(expected)

C5_Witness ==
    /\ Scanned
    /\ l_fn = "get_university_links"
    /\ NavigatorMatching(l_page) = {}
    /\ Len(l_page) = 2
    /\ l_result = <<Host \o <<"en", "about", "">> >>

(***************************************************************************)
(* The LLM and its replies                                                 *)
(*                                                                         *)
(* A reply text is a sequence of tokens: the opening fence with the word   *)
(* json, the bare fence of three backquotes, white space, and bodies.  A   *)
(* body is either the text of one JSON value                               *)
(* or prose.  The values are Python values: None, a str, a list, or a dict *)
(* given by the function from its keys to their values.                    *)
(***************************************************************************)
MaxReplies == 3
TargetPrograms == 86

AINone == [kind |-> "none"]
AIStr(text) == [kind |-> "str", text |-> text]
AIList(items) == [kind |-> "list", items |-> items]
AIDict(at) == [kind |-> "dict", at |-> at]
EmptyAIDict == AIDict(<<>>)
Name(s) == AIStr(<<s>>)

IsDict(v) == v.kind = "dict"
\* d.get(k, default), d a dict
Get(d, k, default) == IF k \in DOMAIN d.at THEN d.at[k] ELSE default
HasKey(d, k) == k \in DOMAIN d.at
\* d[k] = v
SetKey(d, k, v) == AIDict([x \in DOMAIN d.at \cup {k} |-> IF x = k THEN v ELSE d.at[x]])
\* bool(v)
AITruthy(v) == CASE v.kind = "none" -> FALSE
                 [] v.kind = "str" -> v.text # <<>>
                 [] v.kind = "list" -> v.items # <<>>
                 [] v.kind = "dict" -> DOMAIN v.at # {}
\* what a for loop over v visits; None is not iterable
Iterable(v) == v.kind \in {"str", "list", "dict"}
RECURSIVE KeysInOrder(_)
KeysInOrder(ks) == IF ks = {} THEN <<>>
                   ELSE LET k == CHOOSE x \in ks : TRUE
                        IN <<Name(k)>> \o KeysInOrder(ks \ {k})
Items(v) == CASE v.kind = "list" -> v.items
              [] v.kind = "str" -> [i \in 1..Len(v.text) |-> AIStr(<<v.text[i]>>)]
              [] v.kind = "dict" -> KeysInOrder(DOMAIN v.at)
HasLen(v) == Iterable(v)
PyLen(v) == Len(Items(v))
Hashable(v) == v.kind \in {"none", "str"}

RECURSIVE SumSeq(_)
SumSeq(ns) == IF ns = <<>> THEN 0 ELSE Head(ns) + SumSeq(Tail(ns))

\* -------- the values the replies of the model carry
Program(n) == AIDict("name" :> Name(n))
Faculty(name, programs) == AIDict(("name" :> Name(name)) @@ ("programs" :> AIList(programs)))
Level(level, faculties) == AIDict(("level" :> Name(level)) @@ ("faculties" :> AIList(faculties)))
University(levels) ==
    AIDict("university" :> AIDict(("name" :> Name("Bilkent")) @@ ("study_programs" :> AIList(levels))))
\* a record with a name and no study_programs
UniversityBare == AIDict("university" :> AIDict("name" :> Name("Bilkent")))
Missing(level, faculty, program) ==
    AIDict(("level" :> Name(level)) @@ ("faculty" :> Name(faculty)) @@ ("program" :> Program(program)))

PartialRecord == University(<<Level("Bachelor", <<Faculty("Engineering", <<Program("cs"), Program("ee")>>)>>)>>)
FullRecord ==
    University(<<Level("Bachelor", <<Faculty("Engineering", [i \in 1..TargetPrograms |-> Program("cs")])>>)>>)
MissingReply == AIDict("missing_programs" :> AIList(<<Missing("Master", "Law", "llm")>>))
FlatRecord == AIDict(("name" :> Name("Bilkent")) @@ ("city" :> Name("Ankara")))

\* the markdown fence of three backquotes, with and without the word json
FenceJson == "<fence>json"
Fence == "<fence>"
Whitespace == {"\n", " "}
JsonBody == ("{partial}" :> PartialRecord) @@ ("{full}" :> FullRecord) @@ ("{bare}" :> UniversityBare)
            @@ ("{missing}" :> MissingReply) @@ ("{flat}" :> FlatRecord)
            @@ ("[list]" :> AIList(<<FlatRecord>>)) @@ ("null" :> AINone)
\* bodies in which the characters missing_programs occur
MentionsMissingPrograms == {"{missing}", "prose on missing_programs"}

\* str.strip()
RECURSIVE LStrip(_)
LStrip(text) == IF text # <<>> /\ Head(text) \in Whitespace THEN LStrip(Tail(text)) ELSE text
RECURSIVE RStrip(_)
RStrip(text) == IF text # <<>> /\ text[Len(text)] \in Whitespace
                THEN RStrip(SubSeq(text, 1, Len(text) - 1)) ELSE text
Strip(text) == RStrip(LStrip(text))

\* json.loads(text): white space around the value is accepted
json_loads(text) ==
    LET t == Strip(text)
    IN IF Len(t) = 1 /\ t[1] \in DOMAIN JsonBody
       THEN [ok |-> TRUE, value |-> JsonBody[t[1]]]
       ELSE [ok |-> FALSE, value |-> AINone]

\* the first re.sub: every fence with the word json goes, with the white space after it
RECURSIVE RemoveJsonFences(_)
RemoveJsonFences(text) ==
    IF text = <<>> THEN <<>>
    ELSE IF Head(text) = FenceJson THEN RemoveJsonFences(LStrip(Tail(text)))
    ELSE <<Head(text)>> \o RemoveJsonFences(Tail(text))
\* the second re.sub: the first bare fence with only white space after it goes, to the end
RemoveClosingFence(text) ==
    LET at == {i \in 1..Len(text) : text[i] = Fence /\ \A j \in (i+1)..Len(text) : text[j] \in Whitespace}
    IN IF at = {} THEN text
       ELSE LET i == CHOOSE x \in at : \A y \in at : x <= y IN SubSeq(text, 1, i - 1)
\* the third re.sub: a bare fence at the start goes, with the white space around it
RemoveOpeningFence(text) ==
    LET t == LStrip(text)
    IN IF t # <<>> /\ Head(t) = Fence THEN LStrip(Tail(t)) ELSE text
_strip_markdown_json(response) ==
    Strip(RemoveOpeningFence(RemoveClosingFence(RemoveJsonFences(response))))

\* -------- what the LLM service does with one request
Timeout == [kind |-> "timeout"]
HttpError == [kind |-> "http_error"]
BadEnvelope == [kind |-> "bad_envelope"]
Content(text) == [kind |-> "content", text |-> text]
ReplyTexts == {
    <<"{partial}">>, <<"{full}">>, <<"{flat}">>, <<"{missing}">>,
    <<FenceJson, "\n", "{partial}", "\n", Fence>>,
    <<FenceJson, "\n", "{flat}", "\n", Fence, "\n">>,
    <<Fence, "\n", "{flat}", "\n", Fence>>,
    <<"prose">>, <<"prose", "\n", FenceJson, "\n", "{flat}", "\n", Fence>>,
    <<"[list]">>, <<"null">>, <<>> }
Outcomes == {Timeout, HttpError, BadEnvelope} \cup {Content(t) : t \in ReplyTexts}

\* _call_ai_api: the request raises, the status is an error, the envelope has
\* no choices[0].message.content, or the content comes back stripped
_call_ai_api(outcome) ==
    IF outcome.kind = "content"
    THEN [raised |-> FALSE, ret |-> AIStr(Strip(outcome.text))]
    ELSE [raised |-> TRUE, ret |-> AINone]

(***************************************************************************)
(* extractor.UniversityExtractor                                           *)
(***************************************************************************)
PyEq(a, b) == a.kind = b.kind /\ a = b
EmptyList == AIList(<<>>)

\* one pass of the outer loop of _count_extracted_programs goes through
LevelCountable(level_data) ==
    /\ IsDict(level_data)
    /\ Iterable(Get(level_data, "faculties", EmptyList))
    /\ \A i \in 1..PyLen(Get(level_data, "faculties", EmptyList)) :
          LET faculty == Items(Get(level_data, "faculties", EmptyList))[i]
          IN IsDict(faculty) /\ HasLen(Get(faculty, "programs", EmptyList))
    /\ Hashable(Get(level_data, "level", Name("Unknown")))
LevelCount(level_data) ==
    LET faculties == Items(Get(level_data, "faculties", EmptyList))
    IN SumSeq([i \in 1..Len(faculties) |-> PyLen(Get(faculties[i], "programs", EmptyList))])

\* _count_extracted_programs(university_data)['Total']: a str is parsed as it
\* is; whatever cannot be parsed or walked counts as 0
_count_extracted_programs(university_data) ==
    LET parsed == IF university_data.kind = "str" THEN json_loads(university_data.text)
                  ELSE [ok |-> TRUE, value |-> university_data]
        data == parsed.value
    IN IF ~parsed.ok \/ ~IsDict(data) THEN 0
       ELSE IF ~IsDict(Get(data, "university", EmptyAIDict)) THEN 0
       ELSE LET study_programs == Get(Get(data, "university", EmptyAIDict), "study_programs", EmptyList)
            IN IF ~Iterable(study_programs) THEN 0
               ELSE IF \E i \in 1..PyLen(study_programs) : ~LevelCountable(Items(study_programs)[i]) THEN 0
               ELSE SumSeq([i \in 1..PyLen(study_programs) |-> LevelCount(Items(study_programs)[i])])

NewFaculty(faculty_name, program_data) ==
    AIDict(("name" :> faculty_name) @@ ("programs" :> AIList(<<program_data>>)))
NewLevel(level, faculty_name, program_data) ==
    AIDict(("level" :> level) @@ ("faculties" :> AIList(<<NewFaculty(faculty_name, program_data)>>)))
LeastOf(S) == CHOOSE i \in S : \A j \in S : i <= j

\* the body of the loop over the faculties of one level, for one missing
\* program: the faculties after it, and whether it raised
MergeIntoFaculties(faculties, faculty_name, program_data) ==
    IF ~Iterable(faculties) THEN [raised |-> TRUE, faculties |-> faculties]
    ELSE LET fs == Items(faculties)
             stops == {j \in 1..Len(fs) : ~IsDict(fs[j]) \/ PyEq(Get(fs[j], "name", AINone), faculty_name)}
         IN IF stops = {}
            THEN IF faculties.kind = "list"
                 THEN [raised |-> FALSE,
                       faculties |-> AIList(Append(fs, NewFaculty(faculty_name, program_data)))]
                 ELSE [raised |-> TRUE, faculties |-> faculties]
            ELSE LET j == LeastOf(stops)
                 IN IF ~IsDict(fs[j]) \/ ~HasKey(fs[j], "programs") \/ fs[j].at["programs"].kind # "list"
                    THEN [raised |-> TRUE, faculties |-> faculties]
                    ELSE [raised |-> FALSE,
                          faculties |-> AIList([fs EXCEPT ![j] = SetKey(fs[j], "programs",
                                           AIList(Append(fs[j].at["programs"].items, program_data)))])]

\* one pass of the loop over missing_programs on the list study_programs
MergeOne(study_programs, missing) ==
    IF ~IsDict(missing) THEN [raised |-> TRUE, study_programs |-> study_programs]
    ELSE LET level == Get(missing, "level", AINone)
             faculty_name == Get(missing, "faculty", AINone)
             program_data == Get(missing, "program", AINone)
             stops == {i \in 1..Len(study_programs) :
                          \/ ~IsDict(study_programs[i])
                          \/ PyEq(Get(study_programs[i], "level", AINone), level)}
         IN IF stops = {}
            THEN [raised |-> FALSE,
                  study_programs |-> Append(study_programs, NewLevel(level, faculty_name, program_data))]
            ELSE LET i == LeastOf(stops)
                     level_data == study_programs[i]
                 IN IF ~IsDict(level_data) THEN [raised |-> TRUE, study_programs |-> study_programs]
                    ELSE LET m == MergeIntoFaculties(Get(level_data, "faculties", EmptyList),
                                                     faculty_name, program_data)
                         IN [raised |-> m.raised,
                             study_programs |->
                                 \* without the key the list worked on belongs to nobody
                                 IF HasKey(level_data, "faculties")
                                 THEN [study_programs EXCEPT ![i] = SetKey(level_data, "faculties", m.faculties)]
                                 ELSE study_programs]

\* the loop over missing_programs; it ends at the first pass that raises
RECURSIVE MergeAll(_, _)
MergeAll(study_programs, missing_programs) ==
    IF missing_programs = <<>> THEN study_programs
    ELSE LET m == MergeOne(study_programs, Head(missing_programs))
         IN IF m.raised THEN m.study_programs
            ELSE MergeAll(m.study_programs, Tail(missing_programs))

\* every program goes to a new level of its own
RECURSIVE AppendAllAsLevels(_, _)
AppendAllAsLevels(study_programs, missing_programs) ==
    IF missing_programs = <<>> THEN study_programs
    ELSE AppendAllAsLevels(
             Append(study_programs, NewLevel(Get(Head(missing_programs), "level", AINone),
                                             Get(Head(missing_programs), "faculty", AINone),
                                             Get(Head(missing_programs), "program", AINone))),
             Tail(missing_programs))

\* _merge_missing_programs works on current_data itself and returns it, also
\* when a pass raised; study_programs is part of current_data only if both
\* keys were there
_merge_missing_programs(current_data, missing_programs) ==
    IF ~IsDict(current_data) \/ ~IsDict(Get(current_data, "university", EmptyAIDict))
    THEN current_data
    ELSE LET university == Get(current_data, "university", EmptyAIDict)
             study_programs == Get(university, "study_programs", EmptyList)
             attached == HasKey(current_data, "university") /\ HasKey(university, "study_programs")
         IN IF ~Iterable(missing_programs) \/ PyLen(missing_programs) = 0 THEN current_data
            ELSE IF study_programs.kind # "list" THEN current_data
            ELSE IF ~attached THEN current_data
            ELSE SetKey(current_data, "university",
                        SetKey(university, "study_programs",
                               AIList(MergeAll(study_programs.items, Items(missing_programs)))))

\* x in v
Contains(v, k) == CASE v.kind = "str" -> \E i \in 1..Len(v.text) : v.text[i] \in MentionsMissingPrograms
                    [] v.kind = "dict" -> HasKey(v, k)
                    [] v.kind = "list" -> \E i \in 1..Len(v.items) : PyEq(v.items[i], Name(k))
                    [] v.kind = "none" -> FALSE

\* UniversityExtractor.__init__ gives the object no system_prompt
HasSystemPrompt == FALSE

\* _extract_missing_programs(content, current_data) with the service's outcome
\* for its request: the record, the requests made, the values counted
\* lines 536-542: what becomes of the reply of the follow-up request
missing_programs_reply(current_data, api) ==
    IF api.raised THEN current_data
    ELSE IF AITruthy(api.ret) /\ Contains(api.ret, "missing_programs")
    THEN IF IsDict(api.ret)
         THEN _merge_missing_programs(current_data, api.ret.at["missing_programs"])
         ELSE current_data
    ELSE current_data

_extract_missing_programs(current_data, outcome) ==
    IF TargetPrograms - _count_extracted_programs(current_data) <= 0
    THEN [ret |-> current_data, calls |-> 0, counted |-> <<current_data>>]
    ELSE [calls |-> 1, counted |-> <<current_data>>,
          ret |-> missing_programs_reply(current_data, _call_ai_api(outcome))]

\* lines 329-335: the second pass gave enhanced_data
second_pass_result(university_data, second) ==
    [ret |-> IF AITruthy(second.ret) THEN second.ret ELSE university_data,
     calls |-> 1 + second.calls,
     counted |-> <<university_data>> \o second.counted]

\* lines 321-335: the first pass gave api
first_pass_result(api, replies) ==
    IF api.raised THEN [ret |-> AINone, calls |-> 1, counted |-> <<>>]
    ELSE IF ~AITruthy(api.ret) THEN [ret |-> api.ret, calls |-> 1, counted |-> <<>>]
    ELSE IF _count_extracted_programs(api.ret) >= TargetPrograms
    THEN [ret |-> api.ret, calls |-> 1, counted |-> <<api.ret>>]
    ELSE second_pass_result(api.ret, _extract_missing_programs(api.ret, replies[2]))

\* _multi_pass_extraction(content, url); replies are the service's outcomes
\* for the requests in the order they are made
_multi_pass_extraction(replies) == first_pass_result(_call_ai_api(replies[1]), replies)

\* _enhanced_extraction_pass(content, url, current_data): building the prompt
\* reads self.system_prompt
_enhanced_extraction_pass(current_data, outcome) ==
    IF ~HasSystemPrompt THEN [ret |-> current_data, calls |-> 0]
    ELSE LET api == _call_ai_api(outcome)
         IN [ret |-> IF api.raised THEN current_data ELSE api.ret, calls |-> 1]

\* lines 216-226: the enhanced pass gave enhanced
enhanced_result(first, enhanced) ==
    [raised |-> FALSE,
     ret |-> IF AITruthy(enhanced.ret) THEN enhanced.ret ELSE first.ret,
     calls |-> first.calls + enhanced.calls,
     counted |-> first.counted \o <<first.ret>>
                 \o (IF AITruthy(enhanced.ret) THEN <<enhanced.ret>> ELSE <<>>)]

\* lines 205-238: _multi_pass_extraction gave first
multi_pass_result(first, replies) ==
    IF ~AITruthy(first.ret)
    THEN [raised |-> FALSE, ret |-> AINone, calls |-> first.calls, counted |-> first.counted]
    ELSE IF ~IsDict(first.ret) \/ ~IsDict(Get(first.ret, "university", EmptyAIDict))
    \* university_data.get('university', {}).get('name', 'Unknown')
    THEN [raised |-> FALSE, ret |-> AINone, calls |-> first.calls,
          counted |-> Append(first.counted, first.ret)]
    ELSE IF _count_extracted_programs(first.ret) >= TargetPrograms
    THEN [raised |-> FALSE, ret |-> first.ret, calls |-> first.calls,
          counted |-> Append(first.counted, first.ret)]
    ELSE enhanced_result(first, _enhanced_extraction_pass(first.ret, replies[first.calls + 1]))

\* extract_university_data(html, url): what is returned, whether an exception
\* left the function, the requests made, the values counted
extract_university_data(replies) == multi_pass_result(_multi_pass_extraction(replies), replies)

(***************************************************************************)
(* FinalAIScraper._extract_university_data_with_ai and                     *)
(* AINavigator._extract_university_data                                    *)
(*                                                                         *)
(* html is the driver's page_source, a str: cleaning it before the try     *)
(* raises nothing.                                                         *)
(***************************************************************************)
Now == Name("2025-01-01 00:00:00")

\* the try block: request, strip, parse, add the two keys
ai_try_block(url, outcome) ==
    LET api == _call_ai_api(outcome)
        parsed == json_loads(_strip_markdown_json(api.ret.text))
    IN IF api.raised \/ ~parsed.ok THEN [raised |-> TRUE, ret |-> AINone]
       \* data["scraped_url"] = url on a list or on None
       ELSE IF ~IsDict(parsed.value) THEN [raised |-> TRUE, ret |-> AINone]
       ELSE [raised |-> FALSE,
             ret |-> SetKey(SetKey(parsed.value, "scraped_url", url), "scraped_at", Now)]

\* the function without its except clause
ai_extract_uncaught(url, outcome) == ai_try_block(url, outcome)

_extract_university_data_with_ai(url, outcome) ==
    IF ai_try_block(url, outcome).raised THEN [raised |-> FALSE, ret |-> EmptyAIDict]
    ELSE ai_try_block(url, outcome)

_extract_university_data(url, outcome) ==
    IF ai_try_block(url, outcome).raised THEN [raised |-> FALSE, ret |-> EmptyAIDict]
    ELSE ai_try_block(url, outcome)

(***************************************************************************)
(* The runs: what is common to the three programs                          *)
(***************************************************************************)
NoInfo == [k |-> 0, stat |-> "pending", scan |-> "none", source |-> "none", pagelinks |-> 0, fetches |-> 0, nlinks |-> 0, nproc |-> 0]

NoSummary == [returned |-> "none"]

NoArgs == [all |-> TRUE, requested |-> <<>>]

NoLast == [ui |-> 0, result |-> "none"]

\* driver.get(url) and the like: a page load on the session
LoadIssued ==
    /\ r_loads' = r_loads + 1
    /\ r_late' = IF r_driver = "closed" THEN r_late + 1 ELSE r_late

SetInfo(k, info) == r_cur' = [info EXCEPT !.k = k]

\* COUNTRIES entries, and one name listed under two codes
GlobalCountryPool ==
    { [name |-> "Turkey", code |-> "tr"],
      [name |-> "Germany", code |-> "de"],
      [name |-> "Turkey", code |-> "cy"] }

RECURSIVE CountryListsOfLen(_)
CountryListsOfLen(n) ==
    IF n = 0 THEN {<<>>}
    ELSE {Append(l, c) : l \in CountryListsOfLen(n - 1), c \in GlobalCountryPool}

GlobalCountryLists == UNION {CountryListsOfLen(n) : n \in 0..MaxCountries}

(***************************************************************************)
(* comprehensive_global_scraper.run_global_scraper                         *)
(***************************************************************************)
\* Variant: the try/except of scrape_country_universities is missing.
scrape_country_universities_uncaught(page, load, scan) ==
    [raised |-> load = "fails" \/ scan = "fails" \/ \E i \in 1..Len(page) : page[i].stale,
     universities |-> IF load = "fails" THEN <<>> ELSE country_universities(page, scan)]

\* scrape_country_universities: driver.get, the wait, the scan of the
\* anchors; every exception is caught and gives []
scrape_country_universities(page, load, scan) ==
    [raised |-> FALSE,
     universities |-> IF load = "fails" THEN <<>> ELSE country_universities(page, scan)]

\* Variant: driver.quit() stands at the end of the try block.
global_quits_if_no_exception(exc) == exc = "none"

\* finally: driver.quit()
global_quits(exc) == TRUE

\* the content of {country_code}_universities.json
CountryFile(universities) ==
    [kind |-> "json", universities_count |-> Len(universities), universities |-> universities]

PartialCountryFile == [kind |-> "partial", universities_count |-> 0, universities |-> <<>>]

\* os.makedirs(output_dir); driver = setup_driver(), which creates the
\* session with webdriver.Chrome(...) and then calls driver.implicitly_wait(5).
\* Both stand before the try block.
GSetup ==
    /\ r_prog = "global"
    /\ r_pc = "g_setup"
    /\ \E result \in {"ok", "no_session", "implicitly_wait_raised"} :
          /\ r_driver' = IF result = "no_session" THEN "none" ELSE "open"
          /\ r_outcome' = IF result = "ok" THEN "running" ELSE "raised"
          /\ r_exc' = IF result = "ok" THEN "none" ELSE "setup"
          /\ r_pc' = IF result = "ok" THEN "g_loop" ELSE "done"
    /\ UNCHANGED <<r_prog, r_quits, r_loads, r_late, r_countries, r_ci, r_cur, r_links, r_ui,
                   r_last, r_files, r_dirs, r_results, r_total, r_summary, r_sitemap, r_tried>>
    /\ UNCHANGED <<sanVars, wVars, lVars, pVars, eVars>>

\* one pass of "for i, country in enumerate(countries_to_scrape, 1)"
GCountry ==
    /\ r_prog = "global"
    /\ r_pc = "g_loop"
    /\ r_ci <= Len(r_countries)
    /\ \E load \in {"ok", "fails"}, page \in GlobalPages, scan \in {"ok", "fails"},
          env \in {"ok", "open", "write"} :
          LET country == r_countries[r_ci]
              res == scrape_country_universities(page, load, scan)
              universities == res.universities
              scanFailed == scan = "fails" \/ \E i \in 1..Len(page) : page[i].stale
              info == [NoInfo EXCEPT !.scan = IF load = "fails" THEN "none"
                                               ELSE IF scanFailed THEN "failed" ELSE "ok",
                                     !.source = IF universities = <<>> THEN "none" ELSE "page",
                                     !.pagelinks = Len(universities),
                                     !.nlinks = Len(universities)]
          IN /\ (load = "fails" => page = <<>> /\ scan = "ok")
             /\ (universities = <<>> => env = "ok")
             /\ LoadIssued
             /\ r_links' = universities
             /\ IF res.raised
                THEN /\ SetInfo(r_ci, [info EXCEPT !.stat = IF load = "fails" THEN "load_failed"
                                                           ELSE "scan_failed"])
                     /\ r_exc' = "country_page"
                     /\ r_pc' = "g_finally"
                     /\ UNCHANGED <<r_ci, r_files, r_results, r_total>>
                ELSE IF universities = <<>>
                THEN /\ SetInfo(r_ci, [info EXCEPT !.stat = IF load = "fails" THEN "load_failed"
                                                           ELSE IF scanFailed THEN "scan_failed"
                                                           ELSE "no_links"])
                     /\ r_ci' = r_ci + 1
                     /\ UNCHANGED <<r_exc, r_pc, r_files, r_results, r_total>>
                ELSE IF env # "ok"
                THEN /\ SetInfo(r_ci, [info EXCEPT !.stat = "write_failed"])
                     /\ r_files' = IF env = "write"
                                   THEN (country.code :> PartialCountryFile) @@ r_files
                                   ELSE r_files
                     /\ r_exc' = "country_file"
                     /\ r_pc' = "g_finally"
                     /\ UNCHANGED <<r_ci, r_results, r_total>>
                ELSE /\ SetInfo(r_ci, [info EXCEPT !.stat = "saved", !.nproc = Len(universities)])
                     /\ r_files' = (country.code :> CountryFile(universities)) @@ r_files
                     /\ r_results' = (country.name :> universities) @@ r_results
                     /\ r_total' = r_total + Len(universities)
                     /\ r_ci' = r_ci + 1
                     /\ UNCHANGED <<r_exc, r_pc>>
    /\ UNCHANGED <<r_prog, r_driver, r_quits, r_outcome, r_countries, r_ui, r_last, r_dirs,
                   r_summary, r_sitemap, r_tried, p_pc, p_fn, p_in, p_out, e_self, e_calls>>
    /\ UNCHANGED <<sanVars, wVars, lVars, pVars, eVars>>

\* after the loop: the summary is built and written to scraping_summary.json
GSummary ==
    /\ r_prog = "global"
    /\ r_pc = "g_loop"
    /\ r_ci > Len(r_countries)
    /\ \E env \in {"ok", "open"} :
          /\ r_summary' = [returned |-> "tuple", countries_processed |-> Len(r_countries),
                           total_universities_found |-> r_total,
                           countries_summary |->
                               [name \in DOMAIN r_results |-> Len(r_results[name])]]
          /\ r_exc' = IF env = "ok" THEN "none" ELSE "summary_file"
    /\ r_pc' = "g_finally"
    /\ UNCHANGED <<r_prog, r_driver, r_quits, r_loads, r_late, r_outcome, r_countries, r_ci,
                   r_cur, r_links, r_ui, r_last, r_files, r_dirs, r_results, r_total,
                   r_sitemap, r_tried>>
    /\ UNCHANGED <<sanVars, wVars, lVars, pVars, eVars>>

\* finally: driver.quit(); then the return or the propagating exception
GFinally ==
    /\ r_prog = "global"
    /\ r_pc = "g_finally"
    /\ IF global_quits(r_exc)
       THEN /\ r_quits' = r_quits + 1
            /\ r_driver' = "closed"
            /\ \E quitRaises \in BOOLEAN :
                  /\ r_exc' = IF quitRaises THEN "quit" ELSE r_exc
                  /\ r_outcome' = IF quitRaises \/ r_exc # "none" THEN "raised" ELSE "returned"
       ELSE /\ r_outcome' = "raised"
            /\ UNCHANGED <<r_quits, r_driver, r_exc>>
    /\ r_pc' = "done"
    /\ UNCHANGED <<r_prog, r_loads, r_late, r_countries, r_ci, r_cur, r_links, r_ui, r_last,
                   r_files, r_dirs, r_results, r_total, r_summary, r_sitemap, r_tried>>
    /\ UNCHANGED <<sanVars, wVars, lVars, pVars, eVars>>

(***************************************************************************)
(* final_scraper.FinalAIScraper.scrape_universities                        *)
(***************************************************************************)
FinalCap == 5
AINavCap == 10

\* the outcomes of the LLM request drawn in the loops
LoopOutcomes == {Timeout, HttpError, Content(<<"prose">>), Content(<<"[list]">>),
                 Content(<<"{flat}">>),
                 Content(<<FenceJson, "\n", "{flat}", "\n", Fence>>)}
\* how a pass of the loop went
PassResult(get, outcome, universities, after) ==
    IF get = "raises" THEN "get_raised"
    ELSE IF outcome.kind # "content" THEN outcome.kind
    ELSE IF after = universities THEN "unparsable"
    ELSE "data"

\* Variant: the slice [:5] is missing.
final_to_process_all(unique_links) == unique_links

\* unique_links[:5]
final_to_process(unique_links) == Take(unique_links, FinalCap)

\* the try block of one pass of the loop: driver.get, the AI extraction,
\* universities.append(uni_data) if uni_data
final_pass_try(universities, uni_url, get, outcome) ==
    IF get = "raises" THEN [raised |-> TRUE, universities |-> universities]
    ELSE LET uni_data == _extract_university_data_with_ai(AIStr(uni_url), outcome)
         IN IF uni_data.raised THEN [raised |-> TRUE, universities |-> universities]
            ELSE [raised |-> FALSE,
                  universities |-> IF AITruthy(uni_data.ret)
                                   THEN Append(universities, uni_data.ret)
                                   ELSE universities]
\* the pass without its except clause
final_pass_uncaught(universities, uni_url, get, outcome) ==
    final_pass_try(universities, uni_url, get, outcome)
\* one pass of the loop: except Exception: print
final_pass(universities, uni_url, get, outcome) ==
    [final_pass_try(universities, uni_url, get, outcome) EXCEPT !.raised = FALSE]

\* step 1 and 2: the listing page is loaded and its links are collected
FLoad ==
    /\ r_prog = "final"
    /\ r_pc = "f_start"
    /\ LoadIssued
    /\ \E load \in {"ok", "fails"}, page \in FinalPages :
          /\ (load = "fails" => page = <<>>)
          /\ IF load = "fails"
             THEN /\ r_summary' = [returned |-> "empty", universities |-> <<>>, total_found |-> 0]
                  /\ r_exc' = "caught"
                  /\ r_pc' = "f_finally"
                  /\ UNCHANGED <<r_links, r_ui, r_total>>
             ELSE /\ r_links' = final_to_process(final_unique_links(page))
                  /\ r_total' = Len(final_unique_links(page))
                  /\ r_ui' = 1
                  /\ r_pc' = "f_loop"
                  /\ UNCHANGED <<r_summary, r_exc>>
    /\ UNCHANGED <<r_prog, r_driver, r_quits, r_outcome, r_countries, r_ci, r_cur, r_last,
                   r_files, r_dirs, r_results, r_sitemap, r_tried>>
    /\ UNCHANGED <<sanVars, wVars, lVars, pVars, eVars>>

\* step 3, one pass of the loop: the university page is loaded and handed
\* to the AI extraction; an exception is caught inside the pass
FProcess ==
    /\ r_prog = "final"
    /\ r_pc = "f_loop"
    /\ r_ui <= Len(r_links)
    /\ LoadIssued
    /\ \E get \in {"ok", "raises"}, outcome \in LoopOutcomes :
          LET pass == final_pass(r_results, r_links[r_ui], get, outcome)
              result == PassResult(get, outcome, r_results, pass.universities)
          IN /\ (get = "raises" => outcome = Timeout)
             /\ r_results' = pass.universities
             /\ r_last' = [ui |-> r_ui, result |-> result]
             /\ r_tried' = Append(r_tried, result = "data")
             /\ IF pass.raised
                THEN /\ r_summary' = [returned |-> "empty", universities |-> <<>>, total_found |-> 0]
                     /\ r_exc' = "caught"
                     /\ r_pc' = "f_finally"
                     /\ r_ui' = r_ui
                ELSE /\ r_ui' = r_ui + 1
                     /\ UNCHANGED <<r_summary, r_exc, r_pc>>
    /\ UNCHANGED <<r_prog, r_driver, r_quits, r_outcome, r_countries, r_ci, r_cur,
                   r_links, r_files, r_dirs, r_total, r_sitemap>>
    /\ UNCHANGED <<sanVars, wVars, lVars, pVars, eVars>>

\* return {"universities": universities, "total_found": len(universities)}
FReturn ==
    /\ r_prog = "final"
    /\ r_pc = "f_loop"
    /\ r_ui > Len(r_links)
    /\ r_summary' = [returned |-> "dict", universities |-> r_results,
                     total_found |-> Len(r_results)]
    /\ r_pc' = "f_finally"
    /\ UNCHANGED <<r_prog, r_driver, r_quits, r_loads, r_late, r_outcome, r_exc, r_countries,
                   r_ci, r_cur, r_links, r_ui, r_last, r_files, r_dirs, r_results, r_total,
                   r_sitemap, r_tried>>
    /\ UNCHANGED <<sanVars, wVars, lVars, pVars, eVars>>

\* finally: self.driver.quit()
FFinally ==
    /\ r_prog = "final"
    /\ r_pc = "f_finally"
    /\ r_quits' = r_quits + 1
    /\ r_driver' = "closed"
    /\ \E quitRaises \in BOOLEAN :
          /\ r_exc' = IF quitRaises THEN "quit" ELSE r_exc
          /\ r_outcome' = IF quitRaises THEN "raised" ELSE "returned"
    /\ r_pc' = "done"
    /\ UNCHANGED <<r_prog, r_loads, r_late, r_countries, r_ci, r_cur, r_links, r_ui, r_last,
                   r_files, r_dirs, r_results, r_total, r_summary, r_sitemap, r_tried>>
    /\ UNCHANGED <<sanVars, wVars, lVars, pVars, eVars>>

(***************************************************************************)
(* ai_navigator.AINavigator.scrape_university_data                         *)
(***************************************************************************)
\* listing pages with two and with eleven university links
AINavPages ==
    { <<>>,
      <<Anchor(Host \o <<"en", "1", "koc">>, "", FALSE), Anchor(<<"", "en", "22", "metu">>, "", FALSE)>>,
      [i \in 1..(AINavCap + 1) |-> Anchor(Host \o <<"en", ToString(100 + i), "koc">>, "", FALSE)] }

\* unique_links[:10]
ainav_to_process(unique_links) == Take(unique_links, AINavCap)

\* the body of one pass of the loop, with its except clause:
\* universities.append(uni_data) if uni_data and isinstance(uni_data, dict)
ainav_pass(universities, uni_url, get, outcome) ==
    IF get = "raises" THEN [raised |-> FALSE, universities |-> universities]
    ELSE LET uni_data == _extract_university_data(AIStr(uni_url), outcome)
         IN [raised |-> FALSE,
             universities |-> IF ~uni_data.raised /\ AITruthy(uni_data.ret) /\ IsDict(uni_data.ret)
                              THEN Append(universities, uni_data.ret)
                              ELSE universities]

\* the listing page is loaded and its links are collected
ALoad ==
    /\ r_prog = "ainav"
    /\ r_pc = "a_start"
    /\ LoadIssued
    /\ \E load \in {"ok", "fails"}, page \in AINavPages :
          /\ (load = "fails" => page = <<>>)
          /\ IF load = "fails"
             THEN /\ r_summary' = [returned |-> "empty", universities |-> <<>>, total_found |-> 0]
                  /\ r_exc' = "caught"
                  /\ r_pc' = "a_finally"
                  /\ UNCHANGED <<r_links, r_ui, r_total>>
             ELSE /\ r_links' = ainav_to_process(final_unique_links(page))
                  /\ r_total' = Len(final_unique_links(page))
                  /\ r_ui' = 1
                  /\ r_pc' = "a_loop"
                  /\ UNCHANGED <<r_summary, r_exc>>
    /\ UNCHANGED <<r_prog, r_driver, r_quits, r_outcome, r_countries, r_ci, r_cur, r_last,
                   r_files, r_dirs, r_results, r_sitemap, r_tried>>
    /\ UNCHANGED <<sanVars, wVars, lVars, pVars, eVars>>

\* one pass of the loop
AProcess ==
    /\ r_prog = "ainav"
    /\ r_pc = "a_loop"
    /\ r_ui <= Len(r_links)
    /\ LoadIssued
    /\ \E get \in {"ok", "raises"}, outcome \in LoopOutcomes :
          LET pass == ainav_pass(r_results, r_links[r_ui], get, outcome)
              result == PassResult(get, outcome, r_results, pass.universities)
          IN /\ (get = "raises" => outcome = Timeout)
             /\ r_results' = pass.universities
             /\ r_last' = [ui |-> r_ui, result |-> result]
             /\ r_tried' = Append(r_tried, result = "data")
    /\ r_ui' = r_ui + 1
    /\ UNCHANGED <<r_prog, r_pc, r_driver, r_quits, r_outcome, r_exc, r_countries, r_ci, r_cur,
                   r_links, r_files, r_dirs, r_total, r_summary, r_sitemap>>
    /\ UNCHANGED <<sanVars, wVars, lVars, pVars, eVars>>

\* return {"universities": universities, "total_found": len(universities)}
AReturn ==
    /\ r_prog = "ainav"
    /\ r_pc = "a_loop"
    /\ r_ui > Len(r_links)
    /\ r_summary' = [returned |-> "dict", universities |-> r_results,
                     total_found |-> Len(r_results)]
    /\ r_pc' = "a_finally"
    /\ UNCHANGED <<r_prog, r_driver, r_quits, r_loads, r_late, r_outcome, r_exc, r_countries,
                   r_ci, r_cur, r_links, r_ui, r_last, r_files, r_dirs, r_results, r_total,
                   r_sitemap, r_tried>>
    /\ UNCHANGED <<sanVars, wVars, lVars, pVars, eVars>>

\* finally: self.driver.quit()
AFinally ==
    /\ r_prog = "ainav"
    /\ r_pc = "a_finally"
    /\ r_quits' = r_quits + 1
    /\ r_driver' = "closed"
    /\ \E quitRaises \in BOOLEAN :
          /\ r_exc' = IF quitRaises THEN "quit" ELSE r_exc
          /\ r_outcome' = IF quitRaises THEN "raised" ELSE "returned"
    /\ r_pc' = "done"
    /\ UNCHANGED <<r_prog, r_loads, r_late, r_countries, r_ci, r_cur, r_links, r_ui, r_last,
                   r_files, r_dirs, r_results, r_total, r_summary, r_sitemap, r_tried>>
    /\ UNCHANGED <<sanVars, wVars, lVars, pVars, eVars>>

(***************************************************************************)
(* scraper/main.py: the helpers                                            *)
(***************************************************************************)
LowerLetters == <<"a", "b", "c", "d", "e", "f", "g", "h", "i", "j", "k", "l", "m", "n", "o",
    "p", "q", "r", "s", "t", "u", "v", "w", "x", "y", "z">>
UpperLetters == <<"A", "B", "C", "D", "E", "F", "G", "H", "I", "J", "K", "L", "M", "N", "O",
    "P", "Q", "R", "S", "T", "U", "V", "W", "X", "Y", "Z">>

IsUpper(c) == \E i \in 1..26 : UpperLetters[i] = c
IsLower(c) == \E i \in 1..26 : LowerLetters[i] = c
IsCased(c) == IsUpper(c) \/ IsLower(c)
UpperOf(c) == IF IsLower(c) THEN UpperLetters[CHOOSE i \in 1..26 : LowerLetters[i] = c] ELSE c
LowerOf(c) == IF IsUpper(c) THEN LowerLetters[CHOOSE i \in 1..26 : UpperLetters[i] = c] ELSE c

\* str.lower()
Lower(s) == [i \in 1..Len(s) |-> LowerOf(s[i])]

\* str.title(): a cased character is upper-cased after an uncased one (or at
\* the start) and lower-cased after a cased one
Title(s) ==
    [i \in 1..Len(s) |-> IF i > 1 /\ IsCased(s[i - 1]) THEN LowerOf(s[i]) ELSE UpperOf(s[i])]

\* str.replace(c, ' ') for every c of a set
ReplaceWithSpace(s, cs) == [i \in 1..Len(s) |-> IF s[i] \in cs THEN " " ELSE s[i]]

\* a in b, for two str
IsSubstring(a, b) ==
    \E p \in 1..(Len(b) + 1) :
        /\ p + Len(a) - 1 <= Len(b)
        /\ \A j \in 1..Len(a) : b[p + j - 1] = a[j]

\* whether pat occurs in s at position p
StartsAt(s, p, pat) ==
    /\ p + Len(pat) - 1 <= Len(s)
    /\ \A j \in 1..Len(pat) : s[p + j - 1] = pat[j]

\* the characters of the URL pieces the runs meet
PieceText ==
    ("https:" :> <<"h", "t", "t", "p", "s", ":">>) @@ ("" :> <<>>) @@ ("www.unipage.net" :> <<"w", "w", "w", ".", "u", "n", "i", "p", "a", "g", "e", ".", "n", "e", "t">>) @@
    ("en" :> <<"e", "n">>) @@ ("1" :> <<"1">>) @@ ("22" :> <<"2", "2">>) @@
    ("universities_turkey_ab" :> <<"u", "n", "i", "v", "e", "r", "s", "i", "t", "i", "e", "s", "_", "t", "u", "r", "k", "e", "y", "_", "a", "b">>) @@
    ("universities_new_zealand_ab" :> <<"u", "n", "i", "v", "e", "r", "s", "i", "t", "i", "e", "s", "_", "n", "e", "w", "_", "z", "e", "a", "l", "a", "n", "d", "_", "a", "b">>) @@
    ("countries" :> <<"c", "o", "u", "n", "t", "r", "i", "e", "s">>) @@
    ("koc-university" :> <<"k", "o", "c", "-", "u", "n", "i", "v", "e", "r", "s", "i", "t", "y">>) @@
    ("?page=2" :> <<"?", "p", "a", "g", "e", "=", "2">>)

RECURSIVE JoinPieces(_, _)
\* the text of the pieces of a URL from piece i on, with the slashes between them
JoinPieces(url, i) ==
    IF i > Len(url) THEN <<>>
    ELSE IF i = Len(url) THEN PieceText[url[i]]
    ELSE PieceText[url[i]] \o <<"/">> \o JoinPieces(url, i + 1)

UniversitiesPrefix == <<"u", "n", "i", "v", "e", "r", "s", "i", "t", "i", "e", "s", "_">>

\* re.search(r'/en/universities_([^_]+)_ab', country_url) with the match
\* starting at the slash before piece i
CountryNameMatchAt(url, i) ==
    /\ i >= 2
    /\ i < Len(url)
    /\ url[i] = "en"
    /\ LET rest == JoinPieces(url, i + 1)
           from == Len(UniversitiesPrefix) + 1
           n == CHOOSE n \in 0..Len(rest) :
                    /\ \A k \in from..(from + n - 1) : k <= Len(rest) /\ rest[k] # "_"
                    /\ from + n > Len(rest) \/ rest[from + n] = "_"
       IN /\ StartsAt(rest, 1, UniversitiesPrefix)
          /\ n >= 1
          /\ StartsAt(rest, from + n, <<"_", "a", "b">>)

\* match.group(1)
CountryNameGroup(url, i) ==
    LET rest == JoinPieces(url, i + 1)
        from == Len(UniversitiesPrefix) + 1
        n == CHOOSE n \in 0..Len(rest) :
                 /\ \A k \in from..(from + n - 1) : k <= Len(rest) /\ rest[k] # "_"
                 /\ from + n > Len(rest) \/ rest[from + n] = "_"
    IN SubSeq(rest, from, from + n - 1)

\* urlparse(url).path.strip('/').split('/')
PathParts(url) ==
    LET raw == IF Len(url) >= 3 /\ url[2] = "" THEN SubSeq(url, 4, Len(url)) ELSE url
        cut == IF \E k \in 1..Len(raw) : raw[k] \in QueryPieces
               THEN LET q == CHOOSE k \in 1..Len(raw) :
                                 raw[k] \in QueryPieces /\ \A m \in 1..(k - 1) : raw[m] \notin QueryPieces
                    IN Append(SubSeq(raw, 1, q - 1), "")
               ELSE raw
        filled == {k \in 1..Len(cut) : cut[k] # ""}
    IN IF filled = {} THEN <<"">>
       ELSE LET lo == CHOOSE k \in filled : \A m \in filled : k <= m
                hi == CHOOSE k \in filled : \A m \in filled : k >= m
            IN SubSeq(cut, lo, hi)

Unknown == <<"U", "n", "k", "n", "o", "w", "n">>
UnknownUniversity == <<"U", "n", "k", "n", "o", "w", "n", " ", "U", "n", "i", "v", "e", "r", "s", "i", "t", "y">>

extract_country_from_url(country_url) ==
    IF \E i \in 1..Len(country_url) : CountryNameMatchAt(country_url, i)
    THEN LET i == CHOOSE k \in 1..Len(country_url) :
                      /\ CountryNameMatchAt(country_url, k)
                      /\ \A m \in 1..(k - 1) : ~CountryNameMatchAt(country_url, m)
         IN Title(ReplaceWithSpace(CountryNameGroup(country_url, i), {"_"}))
    ELSE LET parts == PathParts(country_url)
         IN IF Len(parts) >= 2
            THEN Title(ReplaceWithSpace(PieceText[parts[Len(parts)]], {"_"}))
            ELSE Unknown

\* re.search(r'/en/\d+/([^/?]+)', uni_url) with the match starting at the
\* slash before piece i
UniversityNameMatchAt(url, i) ==
    /\ i >= 2
    /\ i + 2 <= Len(url)
    /\ url[i] = "en"
    /\ url[i + 1] \in DigitPieces
    /\ url[i + 2] # ""
    /\ url[i + 2] \notin QueryPieces

extract_university_name_from_url(uni_url) ==
    IF \E i \in 1..Len(uni_url) : UniversityNameMatchAt(uni_url, i)
    THEN LET i == CHOOSE k \in 1..Len(uni_url) :
                      /\ UniversityNameMatchAt(uni_url, k)
                      /\ \A m \in 1..(k - 1) : ~UniversityNameMatchAt(uni_url, m)
         IN Title(ReplaceWithSpace(PieceText[uni_url[i + 2]], {"-", "_"}))
    ELSE LET parts == PathParts(uni_url)
         IN IF Len(parts) >= 3
            THEN Title(ReplaceWithSpace(PieceText[parts[Len(parts)]], {"-", "_"}))
            ELSE UnknownUniversity

\* the filter of main(): whether a discovered country is kept
CountryRequested(country_url, requested_countries) ==
    LET country_name == Lower(extract_country_from_url(country_url))
    IN \E r \in 1..Len(requested_countries) :
           \/ IsSubstring(requested_countries[r], country_name)
           \/ IsSubstring(country_name, requested_countries[r])

\* country_urls after the --countries filter
filter_country_urls(country_urls, args) ==
    IF args.all THEN country_urls
    ELSE SelectSeq(country_urls, LAMBDA u : CountryRequested(u, args.requested))

\* the text of the strings in the records of the runs
RecordText ==
    ("" :> <<>>) @@ ("Ankara" :> Ankara) @@ ("Bilkent University" :> BilkentUniversity) @@
    ("CS" :> <<"C", "S">>) @@ ("Izmir" :> <<"I", "z", "m", "i", "r">>) @@
    ("Bursa" :> <<"B", "u", "r", "s", "a">>) @@ ("Koc" :> <<"K", "o", "c">>)

EmptyDict == PyDict(<<>>)
EmptyStr == PyStr("")
\* None: what extract_all gives when it extracted nothing
PyNone == [t |-> "none", s |-> "", xs |-> <<>>, items |-> <<>>]

\* d.get(k, default)
DictGet(d, k, default) == IF k \in DOMAIN d.items THEN d.items[k] ELSE default

\* the truth value of a Python value
Truthy(v) ==
    CASE v.t = "str" -> v.s # ""
      [] v.t = "list" -> v.xs # <<>>
      [] v.t = "dict" -> DOMAIN v.items # {}
      [] v.t = "none" -> FALSE
      [] OTHER -> TRUE

\* main(): city from the extracted record; an AttributeError leaves city as it is
record_city(record) ==
    LET main_info == DictGet(record, "main_info", EmptyDict)
    IN IF record.t # "dict" \/ main_info.t # "dict" THEN EmptyStr
       ELSE LET city == DictGet(main_info, "city", EmptyStr)
                quick_facts == DictGet(main_info, "quick_facts", EmptyDict)
            IN IF Truthy(city) THEN city
               ELSE IF quick_facts.t # "dict" THEN city
               ELSE IF Truthy(DictGet(quick_facts, "city", EmptyStr))
               THEN DictGet(quick_facts, "city", EmptyStr)
               ELSE DictGet(quick_facts, "location", EmptyStr)

\* main(): uni_name from the extracted record
record_uni_name(record) ==
    LET uni_name == DictGet(record, "university_name", EmptyStr)
        main_info == DictGet(record, "main_info", EmptyDict)
    IN IF record.t # "dict" THEN EmptyStr
       ELSE IF Truthy(uni_name) THEN uni_name
       ELSE IF main_info.t # "dict" THEN uni_name
       ELSE DictGet(main_info, "name", EmptyStr)

\* a Python value as the argument of _sanitize_filename
AsFilename(v) == IF v.t = "str" THEN RecordText[v.s] ELSE NotAStr

\* Variant: no default for a city that was not found.
save_city_no_default(record) == AsFilename(record_city(record))

\* main(): the city and the name the record is saved under
save_city(record) ==
    IF Truthy(record_city(record)) THEN AsFilename(record_city(record)) ELSE Unknown

save_uni_name(record, uni_url) ==
    IF Truthy(record_uni_name(record)) THEN AsFilename(record_uni_name(record))
    ELSE extract_university_name_from_url(uni_url)

(***************************************************************************)
(* scraper/main.py: main()                                                 *)
(***************************************************************************)
SitemapCap == 50

\* if not university_links: the sitemap is asked for
needs_sitemap(university_links) == university_links = <<>>

\* Variant: the slice [:50] is missing.
sitemap_fallback_all(sitemap_links) == sitemap_links

\* university_links = sitemap_links[:50]
sitemap_fallback(sitemap_links) == Take(sitemap_links, SitemapCap)

TurkeyUrl == Host \o <<"en", "universities_turkey_ab">>
NewZealandUrl == Host \o <<"en", "universities_new_zealand_ab">>

\* two universities whose URLs end in the same slug
KocUrl == Host \o <<"en", "1", "koc-university">>
Koc2Url == Host \o <<"en", "22", "koc-university">>

\* what get_university_links finds on a country page
MainPageLinks == {<<>>, <<KocUrl>>, <<KocUrl, Koc2Url>>}

ShortSitemap == <<Koc2Url, KocUrl>>
LongSitemap == [i \in 1..(SitemapCap + 2) |-> Host \o <<"en", ToString(100 + i), "koc-university">>]
Sitemaps == {<<>>, ShortSitemap, LongSitemap}

RECURSIVE CountryUrlListsOfLen(_)
CountryUrlListsOfLen(n) ==
    IF n = 0 THEN {<<>>}
    ELSE {Append(l, c) : l \in CountryUrlListsOfLen(n - 1), c \in {TurkeyUrl, NewZealandUrl}}

\* the country URLs of the site; the site with the long sitemap lists one country
MainCountryLists(sitemap) ==
    IF sitemap = LongSitemap THEN {<<TurkeyUrl>>}
    ELSE UNION {CountryUrlListsOfLen(n) : n \in 0..MaxCountries}

\* --countries: "all", or the requested names
MainArgs ==
    { NoArgs,
      [all |-> FALSE, requested |-> <<<<"t", "u", "r", "k", "e", "y">>>>],
      [all |-> FALSE, requested |-> <<<<"z", "e", "a", "l">>>>] }

\* the records DataExtractor produces
RunRecA == PyDict(("university_name" :> PyStr("Bilkent University")) @@
                  ("main_info" :> PyDict(("city" :> PyStr("Ankara")))))
RunRecB == PyDict(("programs" :> PyList(<<PyStr("CS")>>)))
RunRecords == {RunRecA, RunRecB}

RunEnvs == {"ok", "mkdir"}

\* WebNavigator.get_university_links: the links of the page; a failed scan
\* is "zero items found"
WebNavigator_get_university_links(page, scan) == IF scan = "failed" THEN <<>> ELSE page

\* WebNavigator.get_university_urls_from_sitemap: the matching loc entries;
\* a failed fetch gives the empty list
WebNavigator_get_university_urls_from_sitemap(sitemap, fetched) ==
    IF fetched THEN sitemap ELSE <<>>

\* what one pass of the university loop meets: navigate_to_university
\* returns False, get_page_source returns None, DataExtractor raises, or a
\* record is extracted
UniversitySteps == {"nav_failed", "no_html", "extract_raised", "extracted"}

\* navigator = WebNavigator(headless=True, timeout=10); writer = DataWriter()
MConstruct ==
    /\ r_prog = "main"
    /\ r_pc = "m_construct"
    /\ \E result \in {"ok", "navigator_raised", "writer_raised"} :
          /\ r_driver' = IF result = "navigator_raised" THEN "none" ELSE "open"
          /\ r_dirs' = IF result = "ok" THEN {base_output_path} ELSE r_dirs
          /\ r_exc' = IF result = "ok" THEN "none" ELSE "caught_construct"
          /\ r_pc' = IF result = "ok" THEN "m_home" ELSE "m_finally"
    /\ UNCHANGED <<r_prog, r_quits, r_loads, r_late, r_outcome, r_countries, r_ci, r_cur,
                   r_links, r_ui, r_last, r_files, r_results, r_total, r_summary, r_sitemap, r_tried>>
    /\ UNCHANGED <<sanVars, wVars, lVars, pVars, eVars>>

\* if not navigator.open_home_page(): return
MOpenHome ==
    /\ r_prog = "main"
    /\ r_pc = "m_home"
    /\ LoadIssued
    /\ \E opened \in BOOLEAN : r_pc' = IF opened THEN "m_countries" ELSE "m_finally"
    /\ UNCHANGED <<r_prog, r_driver, r_quits, r_outcome, r_exc, r_countries, r_ci, r_cur,
                   r_links, r_ui, r_last, r_files, r_dirs, r_results, r_total, r_summary, r_sitemap, r_tried>>
    /\ UNCHANGED <<sanVars, wVars, lVars, pVars, eVars>>

\* country_urls = navigator.get_country_links(), then the --countries filter;
\* an empty list at either point returns
MDiscoverCountries ==
    /\ r_prog = "main"
    /\ r_pc = "m_countries"
    /\ \E found \in BOOLEAN, args \in MainArgs :
          LET country_urls == IF found THEN r_countries ELSE <<>>
              filtered_urls == filter_country_urls(country_urls, args)
          IN /\ r_countries' = filtered_urls
             /\ (~found => args = NoArgs)
             /\ r_pc' = IF filtered_urls = <<>> THEN "m_finally" ELSE "m_country"
    /\ r_ci' = 1
    /\ UNCHANGED <<r_prog, r_driver, r_quits, r_loads, r_late, r_outcome, r_exc, r_cur, r_links, r_ui,
                   r_last, r_files, r_dirs, r_results, r_total, r_summary, r_sitemap, r_tried>>
    /\ UNCHANGED <<sanVars, wVars, lVars, pVars, eVars>>

\* one country up to its university loop: open_url, get_university_links,
\* and the sitemap when the page gave no link
MOpenCountry ==
    /\ r_prog = "main"
    /\ r_pc = "m_country"
    /\ r_ci <= Len(r_countries)
    /\ LoadIssued
    /\ \E opened \in BOOLEAN, page \in MainPageLinks, scan \in {"ok", "failed"},
          fetched \in BOOLEAN :
          LET page_links == WebNavigator_get_university_links(page, scan)
              sitemap_links == WebNavigator_get_university_urls_from_sitemap(r_sitemap, fetched)
              university_links == IF needs_sitemap(page_links)
                                  THEN sitemap_fallback(sitemap_links)
                                  ELSE page_links
              info == [NoInfo EXCEPT !.scan = scan,
                                     !.pagelinks = Len(page_links),
                                     !.fetches = IF needs_sitemap(page_links) THEN 1 ELSE 0,
                                     !.source = IF page_links # <<>> THEN "page"
                                                ELSE IF university_links # <<>> THEN "sitemap"
                                                ELSE "none",
                                     !.nlinks = Len(university_links)]
          IN /\ (~opened => page = <<>> /\ scan = "ok" /\ fetched)
             /\ (scan = "failed" => page = <<>>)
             /\ (~needs_sitemap(page_links) => fetched)
             /\ IF ~opened
                THEN /\ SetInfo(r_ci, [NoInfo EXCEPT !.stat = "load_failed"])
                     /\ r_ci' = r_ci + 1
                     /\ UNCHANGED <<r_pc, r_links, r_ui>>
                ELSE IF university_links = <<>>
                THEN /\ SetInfo(r_ci, [info EXCEPT !.stat = "no_links"])
                     /\ r_ci' = r_ci + 1
                     /\ UNCHANGED <<r_pc, r_links, r_ui>>
                ELSE /\ SetInfo(r_ci, [info EXCEPT !.stat = "found"])
                     /\ r_links' = university_links
                     /\ r_ui' = 1
                     /\ r_pc' = "m_uni"
                     /\ UNCHANGED r_ci
    /\ UNCHANGED <<r_prog, r_driver, r_quits, r_outcome, r_exc, r_countries, r_last, r_files,
                   r_dirs, r_results, r_total, r_summary, r_sitemap, r_tried>>
    /\ UNCHANGED <<sanVars, wVars, lVars, pVars, eVars>>

\* Variant: the record is saved before the page is loaded and extracted.
pass_calls_save_first(step) ==
    <<"save_university_data", "navigate_to_university", "get_page_source", "extract_all">>

\* the calls one pass of the university loop makes, in order, by how far it got
pass_calls(step) ==
    CASE step = "nav_failed" -> <<"navigate_to_university">>
      [] step = "no_html" -> <<"navigate_to_university", "get_page_source">>
      [] step = "extract_raised" -> <<"navigate_to_university", "get_page_source", "extract_all">>
      [] step = "extracted" -> <<"navigate_to_university", "get_page_source", "extract_all",
                                 "save_university_data">>

\* one pass of "for uni_url in university_links"
MProcessUniversity ==
    /\ r_prog = "main"
    /\ r_pc = "m_uni"
    /\ r_ui <= Len(r_links)
    /\ LoadIssued
    /\ SetInfo(r_ci, [r_cur EXCEPT !.nproc = r_ui])
    /\ \E step \in UniversitySteps,
          record \in RunRecords, env \in RunEnvs :
          LET uni_url == r_links[r_ui]
              country_name == extract_country_from_url(r_countries[r_ci])
              saved == save_university_data(r_files, r_dirs, country_name, save_city(record),
                                            save_uni_name(record, uni_url), record, env)
          IN /\ (step # "extracted" => record = RunRecA /\ env = "ok")
             /\ IF step = "extracted"
                THEN /\ r_files' = saved.files
                     /\ r_dirs' = saved.dirs
                     /\ r_last' = [ui |-> r_ui, url |-> uni_url, calls |-> pass_calls(step),
                                   result |-> IF saved.ret = "True" THEN "saved"
                                              ELSE "save_failed"]
                     /\ r_ui' = r_ui + 1
                     /\ UNCHANGED <<r_pc, r_exc>>
                ELSE IF step = "extract_raised"
                THEN /\ r_last' = [ui |-> r_ui, url |-> uni_url, calls |-> pass_calls(step),
                                   result |-> step]
                     /\ r_exc' = "caught_extract"
                     /\ r_pc' = "m_finally"
                     /\ UNCHANGED <<r_files, r_dirs, r_ui>>
                ELSE /\ r_last' = [ui |-> r_ui, url |-> uni_url, calls |-> pass_calls(step),
                                   result |-> step]
                     /\ r_ui' = r_ui + 1
                     /\ UNCHANGED <<r_files, r_dirs, r_pc, r_exc>>
    /\ UNCHANGED <<r_prog, r_driver, r_quits, r_outcome, r_countries, r_ci, r_links, r_results,
                   r_total, r_summary, r_sitemap, r_tried>>
    /\ UNCHANGED <<sanVars, wVars, lVars, pVars, eVars>>

\* the university loop of the country is exhausted
MNextCountry ==
    /\ r_prog = "main"
    /\ r_pc = "m_uni"
    /\ r_ui > Len(r_links)
    /\ SetInfo(r_ci, [r_cur EXCEPT !.stat = "done"])
    /\ r_ci' = r_ci + 1
    /\ r_pc' = "m_country"
    /\ UNCHANGED <<r_prog, r_driver, r_quits, r_loads, r_late, r_outcome, r_exc, r_countries,
                   r_links, r_ui, r_last, r_files, r_dirs, r_results, r_total, r_summary, r_sitemap, r_tried>>
    /\ UNCHANGED <<sanVars, wVars, lVars, pVars, eVars>>

\* the country loop is exhausted
MDone ==
    /\ r_prog = "main"
    /\ r_pc = "m_country"
    /\ r_ci > Len(r_countries)
    /\ r_pc' = "m_finally"
    /\ UNCHANGED <<r_prog, r_driver, r_quits, r_loads, r_late, r_outcome, r_exc, r_countries,
                   r_ci, r_cur, r_links, r_ui, r_last, r_files, r_dirs, r_results, r_total,
                   r_summary, r_sitemap, r_tried, p_pc, p_fn, p_in, p_out, e_self, e_calls>>
    /\ UNCHANGED <<sanVars, wVars, lVars, pVars, eVars>>

\* finally: if navigator: navigator.quit()
MFinally ==
    /\ r_prog = "main"
    /\ r_pc = "m_finally"
    /\ IF r_driver # "none"
       THEN /\ r_quits' = r_quits + 1
            /\ r_driver' = "closed"
            /\ \E quitRaises \in BOOLEAN :
                  /\ r_exc' = IF quitRaises THEN "quit" ELSE r_exc
                  /\ r_outcome' = IF quitRaises THEN "raised" ELSE "returned"
       ELSE /\ r_outcome' = "returned"
            /\ UNCHANGED <<r_quits, r_driver, r_exc>>
    /\ r_pc' = "done"
    /\ UNCHANGED <<r_prog, r_loads, r_late, r_countries, r_ci, r_cur, r_links, r_ui, r_last,
                   r_files, r_dirs, r_results, r_total, r_summary, r_sitemap, r_tried>>
    /\ UNCHANGED <<sanVars, wVars, lVars, pVars, eVars>>

(***************************************************************************)
(* Properties of the runs                                                  *)
(***************************************************************************)
\* the position from which the next pass of the country loop starts
CountryLoopPc == IF r_prog = "global" THEN "g_loop" ELSE "m_country"

\* the exceptions that leave the country loop from inside a pass
LoopExceptions == {"country_page", "country_file", "caught_extract"}

\* after the pass of country r_cur.k the loop goes on: it stands before the
\* next country, or the list is exhausted and the run is past the loop
LoopGoesOn ==
    /\ r_exc \notin LoopExceptions
    /\ r_ci = r_cur.k + 1
    /\ \/ r_pc = CountryLoopPc
       \/ r_cur.k = Len(r_countries) /\ r_pc \in {"g_finally", "m_finally", "done"}

\* C1: once the browser session has been created, it is quit exactly once
\* before the run ends, on every exit path, and no page is loaded on a
\* closed session.
C1_SessionQuitOnce ==
    /\ r_quits <= 1
    /\ r_late = 0
    /\ (r_quits = 1 => r_driver = "closed")
    /\ (r_outcome # "running" /\ r_driver # "none" => r_driver = "closed" /\ r_quits = 1)

\* the same, for the runs in which setup_driver() did not raise
SessionQuitOnceAfterSetup == r_exc = "setup" \/ C1_SessionQuitOnce

C3_UnitFailureConfined ==
    /\ (r_prog = "global" /\ r_cur.stat = "write_failed") => LoopGoesOn
    /\ (/\ r_prog = "main"
        /\ r_last.result \in {"extract_raised", "save_failed"}
        /\ r_cur.nproc = r_last.ui
        /\ r_cur.stat = "found")
       => r_pc = "m_uni" /\ r_ui = r_last.ui + 1

\* the part of C3 that holds: a failed write in main()'s university loop
FailedWriteConfinedInMain ==
    (/\ r_prog = "main"
     /\ r_last.result = "save_failed"
     /\ r_cur.nproc = r_last.ui
     /\ r_cur.stat = "found")
    => r_pc = "m_uni" /\ r_ui = r_last.ui + 1

\* C6: in main() the sitemap is fetched for a country only if its page gave
\* no university link, and at most 50 sitemap URLs are processed for it.
C6_SitemapOnlyWhenNoLinksCapped ==
    r_prog = "main" =>
        /\ r_cur.fetches <= 1
        /\ (r_cur.fetches = 1 => r_cur.pagelinks = 0)
        /\ (r_cur.source = "sitemap" =>
               /\ r_cur.fetches = 1
               /\ r_cur.nlinks <= SitemapCap
               /\ r_cur.nproc <= SitemapCap
               /\ (r_cur.stat = "found" => r_links = Take(r_sitemap, SitemapCap)))

\* a sitemap of more than 50 URLs was used and the country's loop is through
C6_Witness ==
    /\ r_prog = "main"
    /\ r_cur.source = "sitemap"
    /\ r_cur.pagelinks = 0
    /\ Len(r_sitemap) > SitemapCap
    /\ r_cur.nproc = SitemapCap
    /\ r_cur.stat = "done"

(***************************************************************************)
(* Specifications                                                          *)
\* -------- the order of main()
IndexOf(seq, x) == CHOOSE i \in 1..Len(seq) : seq[i] = x
\* call a comes before call b in the pass
Before(calls, a, b) ==
    a \in Range(calls) /\ (b \in Range(calls) => IndexOf(calls, a) < IndexOf(calls, b))
NoDuplicates(seq) == \A i, j \in 1..Len(seq) : seq[i] = seq[j] => i = j

\* one step of main() keeps the order
OrderedStep ==
    r_prog = "main" =>
        \* a country is left only for the next one of the list
        /\ r_ci' \in {r_ci, r_ci + 1}
        /\ (r_pc \in {"m_country", "m_uni"} => r_countries' = r_countries)
        \* within a country every step of the loop takes the next link of the list
        /\ (r_pc = "m_uni" /\ r_pc' = "m_uni" =>
               /\ r_ci' = r_ci /\ r_links' = r_links
               /\ r_ui' = r_ui + 1
               /\ r_last'.ui = r_ui /\ r_last'.url = r_links[r_ui])
        /\ (r_pc = "m_uni" /\ r_ci' = r_ci + 1 => r_ui > Len(r_links))
        \* after the DataWriter was constructed, a file or directory appears only
        \* in a pass that loaded that pass's page, took its source and extracted
        \* it, in this order, before saving
        /\ (r_pc # "m_construct" /\ (r_files' # r_files \/ r_dirs' # r_dirs) =>
               /\ r_pc = "m_uni" /\ r_ui <= Len(r_links)
               /\ r_loads' = r_loads + 1
               /\ r_last'.ui = r_ui /\ r_last'.url = r_links[r_ui]
               /\ Before(r_last'.calls, "navigate_to_university", "get_page_source")
               /\ Before(r_last'.calls, "get_page_source", "extract_all")
               /\ Before(r_last'.calls, "extract_all", "save_university_data")
               /\ r_last'.calls[Len(r_last'.calls)] = "save_university_data")

LinksTakenOnce ==
    (r_prog = "main" /\ r_pc = "m_uni") => NoDuplicates(r_links)

RECURSIVE SumOfCounts(_)
\* the sum of universities_count over the entries of countries_summary
SumOfCounts(countries_summary) ==
    IF DOMAIN countries_summary = {} THEN 0
    ELSE LET name == CHOOSE n \in DOMAIN countries_summary : TRUE
         IN countries_summary[name]
            + SumOfCounts([n \in DOMAIN countries_summary \ {name} |-> countries_summary[n]])

GlobalFinished == r_prog = "global" /\ r_pc = "done" /\ r_summary.returned = "tuple"

\* C29: when run_global_scraper finishes, total_universities_found equals the
\* sum of universities_count over countries_summary, the country that yielded
\* universities has its file, and each country file's universities_count is
\* the number of universities it lists.
C29_SummaryTotalsAgree ==
    GlobalFinished =>
        /\ r_summary.total_universities_found = SumOfCounts(r_summary.countries_summary)
        /\ (r_cur.stat = "saved" => r_countries[r_cur.k].code \in DOMAIN r_files)
        /\ \A code \in DOMAIN r_files :
              r_files[code].universities_count = Len(r_files[code].universities)

\* the total is the sum when no country name occurs twice in countries_to_scrape
TotalsAgreeForDistinctNames ==
    (GlobalFinished /\ \A i, j \in 1..Len(r_countries) :
                          r_countries[i].name = r_countries[j].name => i = j)
    => r_summary.total_universities_found = SumOfCounts(r_summary.countries_summary)

\* a finished run whose list named a country twice and whose total is larger
\* than the sum of the summary
TotalAboveSummary ==
    /\ GlobalFinished /\ Len(r_countries) = 2
    /\ r_countries[1].name = r_countries[2].name /\ r_countries[1].code # r_countries[2].code
    /\ r_summary.total_universities_found > SumOfCounts(r_summary.countries_summary)

\* -------- one output file per university URL
\* two passes in a row of one country both saved, for different URLs
TwoUrlsSaved ==
    /\ r_prog = "main" /\ r_pc = "m_uni"
    /\ r_last.result = "saved" /\ r_last.ui = r_ui - 1
    /\ r_last'.result = "saved" /\ r_last'.ui = r_ui
    /\ r_last'.url # r_last.url
SavedUrlGetsOwnFile ==
    TwoUrlsSaved => Cardinality(DOMAIN r_files') = Cardinality(DOMAIN r_files) + 1

\* C21: within one run of main(), two distinct university URLs whose writes
\* succeeded never write to the same path: the second successful write adds a
\* file, so the number of files equals the number of successful writes.
C21_OneFilePerSavedUrl == [][SavedUrlGetsOwnFile]_vars

\* -------- the loops of the two AI scrapers
AIProgs == {"final", "ainav"}
CapOf(prog) == IF prog = "final" THEN FinalCap ELSE AINavCap
MinOf(a, b) == IF a <= b THEN a ELSE b
\* the links whose pass gave a record, in link order
SucceededLinks ==
    LET idx == SelectSeq([i \in 1..Len(r_tried) |-> i], LAMBDA i : r_tried[i])
    IN [k \in 1..Len(idx) |-> AIStr(r_links[idx[k]])]
ScrapedUrls(universities) == [k \in 1..Len(universities) |-> universities[k].at["scraped_url"]]

\* C14: in the loops of FinalAIScraper.scrape_universities and
\* AINavigator.scrape_university_data a failed pass (page load raised, request
\* timed out, HTTP error, reply unparsable) does not end the loop: the next
\* link is the next to be loaded; when the function returns, every link within
\* the cap (5, resp. 10) has been loaded, the returned list holds exactly the
\* records of the passes that succeeded, in link order, and total_found is
\* its length.
C14_FailedPassConfined ==
    (r_prog \in AIProgs /\ r_last.result # "none") =>
        /\ r_ui = r_last.ui + 1
        /\ Len(r_tried) = r_last.ui
        /\ r_exc \in {"none", "quit"}
        /\ ScrapedUrls(r_results) = SucceededLinks
        /\ (r_pc \in {"f_loop", "a_loop"} /\ r_ui <= Len(r_links)  => r_summary = NoSummary)
        /\ (r_pc \in {"f_finally", "a_finally", "done"} =>
               /\ r_ui = Len(r_links) + 1
               /\ Len(r_links) = MinOf(CapOf(r_prog), r_total)
               /\ r_loads = 1 + MinOf(CapOf(r_prog), r_total)
               /\ r_summary.returned = "dict"
               /\ r_summary.universities = r_results
               /\ r_summary.total_found = Len(r_results))

\* the final scraper returned after five passes over a page of six links: the
\* second pass timed out, a later one gave a record
C14_Witness ==
    /\ r_prog = "final" /\ r_pc = "done"
    /\ r_total > FinalCap /\ Len(r_tried) = FinalCap
    /\ ~r_tried[2] /\ r_tried[3] /\ ~r_tried[5]
    /\ r_last.result = "timeout"
    /\ r_summary.total_found = 1

\* the same loop in AINavigator over a page of eleven links
AINavLoopWitness ==
    /\ r_prog = "ainav" /\ r_pc = "done"
    /\ r_total > AINavCap /\ Len(r_tried) = AINavCap
    /\ ~r_tried[1] /\ r_tried[AINavCap]
    /\ r_summary.total_found = 1

(***************************************************************************)
(* extractor.Extractor                                                     *)
(*                                                                         *)
(* A page is given by what the extractor looks for in it: the h1 heading   *)
(* and the labelled sections.  A section is absent, or its label is there  *)
(* and no div follows it, or the div after its label is there: a text, or  *)
(* a list of item divs.  What an Extractor object holds is its logger,     *)
(* given here by the number of error messages logged.                      *)
(***************************************************************************)
MaxCalls == 3

NoSection == [present |-> FALSE, block |-> FALSE, text |-> <<>>, items |-> <<>>]
LabelOnly == [present |-> TRUE, block |-> FALSE, text |-> <<>>, items |-> <<>>]
TextSection(text) == [present |-> TRUE, block |-> TRUE, text |-> text, items |-> <<>>]
ItemSection(items) == [present |-> TRUE, block |-> TRUE, text |-> <<>>, items |-> items]
\* an item of the rankings block: the ranking it mentions and the number in it
RankingItem(mark, rank) == [mark |-> mark, rank |-> rank]
\* an item of the tuition block: the level it mentions, amount, currency, period
FeeItem(level, amount, currency, period) ==
    [level |-> level, amount |-> amount, currency |-> currency, period |-> period]
HtmlPage(h1, type, location, rankings, tuition) ==
    [h1 |-> h1, type |-> type, location |-> location, website |-> "none", about |-> NoSection,
     rankings |-> rankings, tuition |-> tuition]

NoRecord == [kind |-> "none"]

\* _extract_fee_info(text)
_extract_fee_info(item) ==
    [amount |-> IF item.amount = "none" THEN "None" ELSE item.amount,
     currency |-> IF item.currency \in {"USD", "EUR", "TRY"} THEN item.currency ELSE "USD",
     period |-> IF item.period = "semester" THEN "semester"
                ELSE IF item.period = "month" THEN "month" ELSE "year"]

\* elem.find_next('div').text.strip() if elem else default
SectionText(section, default) == IF section.present THEN section.text ELSE default
\* find_next('div') gave None
NoNextDiv(section) == section.present /\ ~section.block

RankingKey(item) == IF item.mark = "QS" THEN "QS_World_University_Rankings"
                    ELSE IF item.mark = "THE" THEN "THE_Ranking" ELSE "none"
FeeKey(item) == IF item.level = "Bachelor" THEN "bachelor"
                ELSE IF item.level = "Master" THEN "master"
                ELSE IF item.level = "Doctorate" THEN "doctorate" ELSE "none"
\* the dict a loop of assignments d[key(item)] = value(item) leaves: the last item wins
LastWith(items, key, Key(_)) ==
    LET at == {i \in 1..Len(items) : Key(items[i]) = key}
    IN items[CHOOSE i \in at : \A j \in at : j <= i]
KeysOf(items, Key(_)) == {Key(items[i]) : i \in 1..Len(items)} \ {"none"}

\* the try block of extract_common_info: some statement raised, or the record
common_info_raises(page) ==
    \/ page.h1 = "none"
    \/ NoNextDiv(page.type) \/ NoNextDiv(page.location) \/ NoNextDiv(page.about)
    \/ NoNextDiv(page.rankings)
    \* int(re.search(r'\d+', text).group()) on an item without a number
    \/ \E i \in 1..Len(page.rankings.items) :
          RankingKey(page.rankings.items[i]) # "none" /\ page.rankings.items[i].rank = "none"
    \/ NoNextDiv(page.tuition)

common_info_record(page) ==
    [kind |-> "dict",
     name |-> page.h1,
     type |-> SectionText(page.type, <<"Unknown">>),
     location |-> [country |-> "Turkey",
                   city |-> IF SectionText(page.location, <<>>) # <<>>
                            THEN Head(SectionText(page.location, <<>>)) ELSE "Unknown"],
     website |-> IF page.website = "none" THEN "" ELSE page.website,
     about |-> [description |-> SectionText(page.about, <<>>),
                rankings |-> [k \in KeysOf(page.rankings.items, RankingKey) |->
                                 LastWith(page.rankings.items, k, RankingKey).rank]],
     tuition_fees |-> [k \in KeysOf(page.tuition.items, FeeKey) |->
                          _extract_fee_info(LastWith(page.tuition.items, k, FeeKey))]]

\* Variant: once an error was logged, the record is no longer built.
extract_common_info_after_errors(self, html_content) ==
    IF common_info_raises(html_content) \/ self.logged > 0
    THEN [ret |-> NoRecord, self |-> [self EXCEPT !.logged = self.logged + 1]]
    ELSE [ret |-> common_info_record(html_content), self |-> self]

\* extract_common_info(self, html_content): what it returns and what it
\* leaves in the object
extract_common_info(self, html_content) ==
    IF common_info_raises(html_content)
    THEN [ret |-> NoRecord, self |-> [self EXCEPT !.logged = self.logged + 1]]
    ELSE [ret |-> common_info_record(html_content), self |-> self]

\* extract_program_info(self, html_content) on the same pages, which hold
\* none of its labels
extract_program_info(self, html_content) ==
    IF html_content.h1 = "none"
    THEN [ret |-> NoRecord, self |-> [self EXCEPT !.logged = self.logged + 1]]
    ELSE [ret |-> [kind |-> "dict", name |-> html_content.h1, study_mode |-> "Unknown",
                   duration |-> "Unknown", language |-> "Unknown", tuition |-> <<>>,
                   exams |-> <<>>],
          self |-> self]

City == TextSection(<<"Ankara", "Turkey">>)
ExtractorPages == {
    HtmlPage("Bilkent", TextSection(<<"Private">>), City,
             ItemSection(<<RankingItem("QS", "5"), RankingItem("THE", "7")>>),
             ItemSection(<<FeeItem("Bachelor", "1200", "EUR", "semester")>>)),
    HtmlPage("Bilkent", NoSection, NoSection, NoSection, NoSection),
    HtmlPage("none", NoSection, City, NoSection, NoSection),
    HtmlPage("Bilkent", NoSection, NoSection, ItemSection(<<RankingItem("QS", "none")>>), NoSection),
    HtmlPage("Bilkent", NoSection, NoSection, LabelOnly, NoSection),
    HtmlPage("Bilkent", NoSection, NoSection, NoSection,
             ItemSection(<<FeeItem("Master", "none", "none", "none")>>)),
    HtmlPage("Bilkent", NoSection, NoSection, ItemSection(<<>>),
             ItemSection(<<FeeItem("other", "none", "none", "none")>>)),
    HtmlPage("Bilkent", LabelOnly, NoSection, NoSection, NoSection) }

ExtractCommonInfo ==
    /\ Len(e_calls) < MaxCalls
    /\ \E html \in ExtractorPages :
          /\ e_calls' = Append(e_calls, [fn |-> "extract_common_info", html |-> html,
                                         result |-> extract_common_info(e_self, html).ret])
          /\ e_self' = extract_common_info(e_self, html).self
    /\ UNCHANGED <<sanVars, wVars, lVars, rVars, pVars>>

ExtractProgramInfo ==
    /\ Len(e_calls) < MaxCalls
    /\ \E html \in ExtractorPages :
          /\ e_calls' = Append(e_calls, [fn |-> "extract_program_info", html |-> html,
                                         result |-> extract_program_info(e_self, html).ret])
          /\ e_self' = extract_program_info(e_self, html).self
    /\ UNCHANGED <<sanVars, wVars, lVars, rVars, pVars>>

CommonCalls == {i \in 1..Len(e_calls) : e_calls[i].fn = "extract_common_info"}

EmptyCollection == [k \in {} |-> "none"]
\* the page has a heading, and no label stands without a div after it
Regular(page) ==
    /\ page.h1 # "none"
    /\ ~NoNextDiv(page.type) /\ ~NoNextDiv(page.location) /\ ~NoNextDiv(page.about)
    /\ ~NoNextDiv(page.rankings) /\ ~NoNextDiv(page.tuition)

\* C19: on a page with a heading, extract_common_info returns a record; where
\* the rankings section or the tuition section is absent the record's
\* rankings, resp. tuition_fees, are empty; a section that is absent or an
\* item of a section that lacks its value never turns into an error.
C19_AbsenceGivesEmpty ==
    \A i \in CommonCalls :
        Regular(e_calls[i].html) =>
            /\ e_calls[i].result.kind = "dict"
            /\ (~e_calls[i].html.rankings.present
                   => e_calls[i].result.about.rankings = EmptyCollection)
            /\ (~e_calls[i].html.tuition.present
                   => e_calls[i].result.tuition_fees = EmptyCollection)

\* the part about absent sections: heading, no rankings section, no tuition section
AbsentSectionsGiveEmpty ==
    \A i \in CommonCalls :
        (/\ Regular(e_calls[i].html)
         /\ ~e_calls[i].html.rankings.present /\ ~e_calls[i].html.tuition.present)
        => /\ e_calls[i].result.kind = "dict"
           /\ e_calls[i].result.about.rankings = EmptyCollection
           /\ e_calls[i].result.tuition_fees = EmptyCollection

\* the part about tuition items: an item without an amount gives amount None
FeeWithoutAmountIsNone ==
    \A i \in CommonCalls :
        (/\ Regular(e_calls[i].html) /\ ~e_calls[i].html.rankings.present
         /\ e_calls[i].html.tuition.items = <<FeeItem("Master", "none", "none", "none")>>)
        => /\ e_calls[i].result.kind = "dict"
           /\ e_calls[i].result.tuition_fees =
                  ("master" :> [amount |-> "None", currency |-> "USD", period |-> "year"])

(***************************************************************************)
(* navigator.Navigator.navigate_degree_programs                            *)
(*                                                                         *)
(* p_in is the total the page reports; p_out is the state of the call: the *)
(* loop variables, the pages the browser showed when they were scanned,    *)
(* the clicks on the Next-page control, and what was returned.             *)
(***************************************************************************)
MaxTotal == 21
MaxPerPage == 2
programs_per_page == 10

\* total_pages = (total_programs + programs_per_page - 1) // programs_per_page
total_pages(total_programs) == (total_programs + programs_per_page - 1) \div programs_per_page

\* Variant: the Next-page control is clicked on every page.
clicks_next_on_every_page(current_page, pages) == current_page <= pages

\* if current_page < total_pages: click the Next-page control
clicks_next(current_page, pages) == current_page < pages

NoPaging == [current_page |-> 1, total_pages |-> 0, shown |-> 1, scanned |-> <<>>,
             clicks |-> 0, program_links |-> <<>>, failed |-> FALSE, ret |-> <<>>]

\* the anchors of the page the browser shows: n of them with a name and a URL
LinksOfPage(page, n) == [i \in 1..n |-> [page |-> page, item |-> i]]

\* the two buttons are clicked and the count is read; a wait that times out
\* or a count that is no number ends the call in the except clause
NavOpenPrograms ==
    /\ p_pc = "start" /\ p_fn = "navigate_degree_programs"
    /\ \E ok \in BOOLEAN :
          IF ok
          THEN /\ p_out' = [NoPaging EXCEPT !.total_pages = total_pages(p_in)]
               /\ p_pc' = "loop"
          ELSE /\ p_out' = [NoPaging EXCEPT !.failed = TRUE]
               /\ p_pc' = "done"
    /\ UNCHANGED <<p_fn, p_in, sanVars, wVars, lVars, rVars, eVars>>

\* one pass of "while current_page <= total_pages"
NavScanPage ==
    /\ p_pc = "loop" /\ p_fn = "navigate_degree_programs"
    /\ p_out.current_page <= p_out.total_pages
    /\ \E n \in 0..MaxPerPage, clicked \in BOOLEAN :
          LET links == p_out.program_links \o LinksOfPage(p_out.shown, n)
              scanned == Append(p_out.scanned, p_out.shown)
          IN IF clicks_next(p_out.current_page, p_out.total_pages)
             THEN IF clicked
                  THEN /\ p_out' = [p_out EXCEPT !.program_links = links, !.scanned = scanned,
                                                 !.clicks = @ + 1, !.shown = @ + 1,
                                                 !.current_page = @ + 1]
                       /\ p_pc' = "loop"
                  \* the wait for the control timed out: return []
                  ELSE /\ p_out' = [p_out EXCEPT !.program_links = links, !.scanned = scanned,
                                                 !.failed = TRUE, !.ret = <<>>]
                       /\ p_pc' = "done"
             ELSE /\ clicked
                  /\ p_out' = [p_out EXCEPT !.program_links = links, !.scanned = scanned,
                                            !.current_page = @ + 1]
                  /\ p_pc' = "loop"
    /\ UNCHANGED <<p_fn, p_in, sanVars, wVars, lVars, rVars, eVars>>

\* the loop condition is false: return program_links
NavReturn ==
    /\ p_pc = "loop" /\ p_fn = "navigate_degree_programs"
    /\ p_out.current_page > p_out.total_pages
    /\ p_out' = [p_out EXCEPT !.ret = p_out.program_links]
    /\ p_pc' = "done"
    /\ UNCHANGED <<p_fn, p_in, sanVars, wVars, lVars, rVars, eVars>>

PagingNext == NavOpenPrograms \/ NavScanPage \/ NavReturn

\* ceil(T / 10)
CeilTenth(total) == IF total % 10 = 0 THEN total \div 10 ELSE total \div 10 + 1
PagingDone == p_pc = "done" /\ p_fn = "navigate_degree_programs"
\* the pages 1..n in this order
FirstPages(n) == [k \in 1..n |-> k]
\* the links are those of the scanned pages, page after page
InPageOrder(links) ==
    \A i, j \in 1..Len(links) :
        i < j => \/ links[i].page < links[j].page
                 \/ links[i].page = links[j].page /\ links[i].item < links[j].item

\* the Next-page control is never clicked on the last page
NeverClicksOnLastPage ==
    p_fn = "navigate_degree_programs" => p_out.shown <= IF p_in = 0 THEN 1 ELSE CeilTenth(p_in)

\* given a total of T: ceil(T/10) pages scanned, ceil(T/10) - 1 clicks (none
\* for T = 0), the links of these pages returned in page order
PagedThrough ==
    /\ p_out.scanned = FirstPages(CeilTenth(p_in))
    /\ p_out.clicks = IF p_in = 0 THEN 0 ELSE CeilTenth(p_in) - 1
    /\ p_out.ret = p_out.program_links
    /\ InPageOrder(p_out.ret)
    /\ \A i \in 1..Len(p_out.ret) : p_out.ret[i].page \in 1..CeilTenth(p_in)

LinksLostOnTimeout ==
    /\ PagingDone /\ p_out.failed /\ p_out.program_links # <<>> /\ p_out.ret = <<>>

(***************************************************************************)
(* SpecCalls: one call of one function on one input                        *)
(***************************************************************************)
ReplySeqs == [1..MaxReplies -> Outcomes]
ExtractInputs == {[url |-> Name(u), outcome |-> o] : u \in {"koc", "metu"}, o \in Outcomes}

ExtractUniversityData ==
    /\ p_pc = "start" /\ p_fn = "extract_university_data"
    /\ p_out' = extract_university_data(p_in)
    /\ p_pc' = "done"
    /\ UNCHANGED <<p_fn, p_in, sanVars, wVars, lVars, rVars, eVars>>

FinalExtractWithAI ==
    /\ p_pc = "start" /\ p_fn = "_extract_university_data_with_ai"
    /\ p_out' = _extract_university_data_with_ai(p_in.url, p_in.outcome)
    /\ p_pc' = "done"
    /\ UNCHANGED <<p_fn, p_in, sanVars, wVars, lVars, rVars, eVars>>

AINavigatorExtract ==
    /\ p_pc = "start" /\ p_fn = "_extract_university_data"
    /\ p_out' = _extract_university_data(p_in.url, p_in.outcome)
    /\ p_pc' = "done"
    /\ UNCHANGED <<p_fn, p_in, sanVars, wVars, lVars, rVars, eVars>>

AIExtractors == {"extract_university_data", "_extract_university_data_with_ai",
                 "_extract_university_data"}

\* C11: whatever the LLM request does (time-out, HTTP error, envelope without
\* content, any reply text), none of the three AI extractors lets an
\* exception out; each returns a record (a dict) or the empty dict or None.
C11_ExtractorsNeverRaise ==
    (p_pc = "done" /\ p_fn \in AIExtractors) =>
        /\ ~p_out.raised
        /\ p_out.ret.kind \in {"dict", "none"}
        /\ (p_fn # "extract_university_data" /\ p_out.ret # EmptyAIDict
               => HasKey(p_out.ret, "scraped_url"))

\* the request timed out and the final scraper's extractor returned {}
C11_Witness ==
    /\ p_pc = "done" /\ p_fn = "_extract_university_data_with_ai"
    /\ p_in.outcome = Timeout
    /\ ~p_out.raised /\ p_out.ret = EmptyAIDict

\* the record a reply text holds once its fences are stripped and it is parsed
RecordOf(outcome) ==
    IF outcome.kind = "content" THEN json_loads(_strip_markdown_json(outcome.text))
    ELSE [ok |-> FALSE, value |-> AINone]
HoldsRecord(outcome) == RecordOf(outcome).ok /\ IsDict(RecordOf(outcome).value)

\* C12: when the first reply held a record with fewer programs than the target
\* and the follow-up request fails or its reply is malformed,
\* extract_university_data raises nothing and returns the record of the first
\* reply, unchanged.
C12_EarlierRecordKept ==
    (/\ p_pc = "done" /\ p_fn = "extract_university_data"
     /\ HoldsRecord(p_in[1])
     /\ _count_extracted_programs(RecordOf(p_in[1]).value) < TargetPrograms
     /\ ~HoldsRecord(p_in[2]))
    => (~p_out.raised /\ p_out.ret = RecordOf(p_in[1]).value)

\* -------- _merge_missing_programs
MaxMissing == 2
MissingPool == {Missing("Bachelor", "Engineering", "me"), Missing("Bachelor", "Law", "llb"),
                Missing("Master", "Law", "llm")}
RECURSIVE MissingListsOfLen(_)
MissingListsOfLen(n) ==
    IF n = 0 THEN {<<>>}
    ELSE {Append(l, x) : l \in MissingListsOfLen(n - 1), x \in MissingPool}
MissingLists == UNION {MissingListsOfLen(n) : n \in 0..MaxMissing}
\* a level entry without 'faculties', a faculty without 'programs'
LevelBare == AIDict("level" :> Name("Bachelor"))
FacultyBare == AIDict("name" :> Name("Engineering"))
CurrentRecords == {
    University(<<>>), PartialRecord, UniversityBare,
    University(<<Level("Bachelor", <<Faculty("Law", <<>>), Faculty("Engineering", <<Program("cs")>>)>>),
                 Level("Master", <<>>)>>),
    University(<<LevelBare>>),
    University(<<Level("Bachelor", <<FacultyBare>>)>>) }
MergeInputs == {[current |-> cur, missing |-> AIList(l)] : cur \in CurrentRecords, l \in MissingLists}

MergeMissingPrograms ==
    /\ p_pc = "start" /\ p_fn = "_merge_missing_programs"
    /\ p_out' = [raised |-> FALSE, ret |-> _merge_missing_programs(p_in.current, p_in.missing)]
    /\ p_pc' = "done"
    /\ UNCHANGED <<p_fn, p_in, sanVars, wVars, lVars, rVars, eVars>>

StudyPrograms(data) == Items(Get(Get(data, "university", EmptyAIDict), "study_programs", EmptyList))
\* the program of the entry stands under the entry's level and faculty
Present(data, missing) ==
    \E i \in 1..Len(StudyPrograms(data)) :
        LET level_data == StudyPrograms(data)[i]
            faculties == Items(Get(level_data, "faculties", EmptyList))
        IN /\ PyEq(Get(level_data, "level", AINone), missing.at["level"])
           /\ \E j \in 1..Len(faculties) :
                /\ PyEq(Get(faculties[j], "name", AINone), missing.at["faculty"])
                /\ \E k \in 1..PyLen(Get(faculties[j], "programs", EmptyList)) :
                       Items(Get(faculties[j], "programs", EmptyList))[k] = missing.at["program"]

\* the record has study_programs, its levels have faculties, its faculties programs
Shaped(data) ==
    /\ HasKey(data, "university") /\ HasKey(data.at["university"], "study_programs")
    /\ \A i \in 1..Len(StudyPrograms(data)) :
          /\ HasKey(StudyPrograms(data)[i], "faculties")
          /\ \A j \in 1..PyLen(StudyPrograms(data)[i].at["faculties"]) :
                 HasKey(Items(StudyPrograms(data)[i].at["faculties"])[j], "programs")

\* C13: after _merge_missing_programs(current, missing) every program of
\* missing stands in the record under its level and faculty, and the record's
\* program count has grown by exactly the number of missing programs.
C13_AllMissingMerged ==
    (p_pc = "done" /\ p_fn = "_merge_missing_programs") =>
        /\ \A i \in 1..PyLen(p_in.missing) : Present(p_out.ret, p_in.missing.items[i])
        /\ _count_extracted_programs(p_out.ret)
              = _count_extracted_programs(p_in.current) + PyLen(p_in.missing)

\* the same for records in which no key is absent
MergedIntoShapedRecord ==
    (p_pc = "done" /\ p_fn = "_merge_missing_programs" /\ Shaped(p_in.current)) =>
        /\ \A i \in 1..PyLen(p_in.missing) : Present(p_out.ret, p_in.missing.items[i])
        /\ _count_extracted_programs(p_out.ret)
              = _count_extracted_programs(p_in.current) + PyLen(p_in.missing)

\* -------- what _merge_missing_programs leaves of the record it was given
RECURSIVE MergeAllRaised(_, _)
\* whether a pass of the loop over missing_programs raised
MergeAllRaised(study_programs, missing_programs) ==
    IF missing_programs = <<>> THEN FALSE
    ELSE MergeOne(study_programs, Head(missing_programs)).raised
         \/ MergeAllRaised(MergeOne(study_programs, Head(missing_programs)).study_programs,
                           Tail(missing_programs))

\* the except clause of _merge_missing_programs was entered
merge_raised(current_data, missing_programs) ==
    \/ ~IsDict(current_data) \/ ~IsDict(Get(current_data, "university", EmptyAIDict))
    \/ ~Iterable(missing_programs)
    \/ LET study_programs == Get(Get(current_data, "university", EmptyAIDict),
                                 "study_programs", EmptyList)
       IN PyLen(missing_programs) > 0 /\
          (~Iterable(study_programs)
             \/ MergeAllRaised(Items(study_programs), Items(missing_programs)))

IsPrefix(old, new) == Len(old) <= Len(new) /\ SubSeq(new, 1, Len(old)) = old

\* the faculty is the old one with programs appended, if anything
FacultyExtended(old, new) ==
    /\ DOMAIN old.at = DOMAIN new.at
    /\ \A k \in DOMAIN old.at \ {"programs"} : new.at[k] = old.at[k]
    /\ (HasKey(old, "programs") => IsPrefix(old.at["programs"].items, new.at["programs"].items))

\* the level is the old one with faculties appended and extended, if anything
LevelExtended(old, new) ==
    /\ DOMAIN old.at = DOMAIN new.at
    /\ \A k \in DOMAIN old.at \ {"faculties"} : new.at[k] = old.at[k]
    /\ (HasKey(old, "faculties") =>
           /\ Len(old.at["faculties"].items) <= Len(new.at["faculties"].items)
           /\ \A j \in 1..Len(old.at["faculties"].items) :
                 FacultyExtended(old.at["faculties"].items[j], new.at["faculties"].items[j]))

\* every level, faculty and program of old stands in new at its old place
OnlyAppended(old, new) ==
    /\ Len(StudyPrograms(old)) <= Len(StudyPrograms(new))
    /\ \A i \in 1..Len(StudyPrograms(old)) :
          LevelExtended(StudyPrograms(old)[i], StudyPrograms(new)[i])

\* C30: _merge_missing_programs never removes, replaces or reorders a level,
\* faculty or program that was there before the call, and when it fails
\* part-way it returns the structure it was given, without a partial merge.
C30_AppendOnlyAndNoPartialMerge ==
    (p_pc = "done" /\ p_fn = "_merge_missing_programs") =>
        /\ OnlyAppended(p_in.current, p_out.ret)
        /\ (merge_raised(p_in.current, p_in.missing) => p_out.ret = p_in.current)

\* the first half alone: what was there stays where it was
MergeOnlyAppends ==
    (p_pc = "done" /\ p_fn = "_merge_missing_programs") => OnlyAppended(p_in.current, p_out.ret)

\* the second entry raised after the first was merged: the first stays merged
PartialMergeReturned ==
    /\ p_pc = "done" /\ p_fn = "_merge_missing_programs"
    /\ p_in.current = University(<<Level("Bachelor", <<FacultyBare>>)>>)
    /\ p_in.missing = AIList(<<Missing("Master", "Law", "llm"),
                               Missing("Bachelor", "Engineering", "me")>>)
    /\ merge_raised(p_in.current, p_in.missing)
    /\ Present(p_out.ret, Missing("Master", "Law", "llm"))
    /\ ~Present(p_out.ret, Missing("Bachelor", "Engineering", "me"))

(***************************************************************************)
(* AINavigator._execute_navigation_plan                                    *)
(*                                                                         *)
(* plans are the plans the LLM gives, the first to this call and the next  *)
(* to the call made after a navigation; once they are used up it gives {}. *)
(* env says what the browser does: whether the first page load of a call,  *)
(* the click, and the page load in the except clause raise, and what the   *)
(* LLM answers for a university page.                                      *)
(***************************************************************************)
MaxDepth == 2
PlanLinkCap == 10

Selector(s) == Name(s)
ExtractPlan == AIDict(("next_action" :> Name("extract_data")) @@ ("extracted_data" :> AIList(<<FlatRecord>>)))
NavigatePlan == AIDict(("next_action" :> Name("navigate_to_link")) @@ ("target_url" :> Name("/en/universities")))
ClickPlan == AIDict(("next_action" :> Name("find_universities_page"))
                    @@ ("target_selector" :> Selector("a.universities")))
InvalidSelectorPlan == AIDict(("next_action" :> Name("find_universities_page"))
                              @@ ("target_selector" :> Selector("a:contains(Universities)")))
LinksPlan == AIDict("university_links" :> AIList(<<Name("/en/1/koc")>>))
Plans == {EmptyAIDict, ExtractPlan, NavigatePlan, ClickPlan, InvalidSelectorPlan, LinksPlan,
          AIList(<<>>)}
\* "(" in selector or "or" in selector.lower() or "speculative" in selector.lower()
InvalidSelectors == {Selector("a:contains(Universities)")}

RECURSIVE PlanSeqsOfLen(_)
PlanSeqsOfLen(n) == IF n = 0 THEN {<<>>} ELSE {<<p>> \o s : p \in Plans, s \in PlanSeqsOfLen(n - 1)}
PlanSeqs == UNION {PlanSeqsOfLen(n) : n \in 1..MaxDepth}
PlanEnvs == [get : {"ok", "raises"}, click : {"ok", "raises"}, fallback_get : {"ok", "raises"},
             outcome : {Timeout, Content(<<"{flat}">>)}]
PlanInputs == {[plans |-> s, env |-> e] : s \in PlanSeqs, e \in PlanEnvs}

\* the loop over plan["university_links"][:10]
RECURSIVE VisitLinks(_, _)
VisitLinks(links, env) ==
    IF links = <<>> THEN <<>>
    ELSE LET uni_data == _extract_university_data(Head(links), env.outcome)
         IN (IF env.get = "ok" /\ AITruthy(uni_data.ret) /\ IsDict(uni_data.ret)
             THEN <<uni_data.ret>> ELSE <<>>) \o VisitLinks(Tail(links), env)

\* what one call returns in "universities", how often it loaded the direct
\* country URL itself (the calls it makes are calls of their own), and how
\* many pages were requested (driver.get, element.click) and how many plans
\* were asked of the LLM by the call and the calls below it
RECURSIVE _execute_navigation_plan(_, _)
_execute_navigation_plan(plans, env) ==
    LET plan == IF plans = <<>> THEN EmptyAIDict ELSE Head(plans)
        sub == _execute_navigation_plan(Tail(plans), env)
        next_action == Get(plan, "next_action", Name(""))
        nothing == [universities |-> <<>>, country_loads |-> 0, loads |-> 0, asked |-> 0]
        \* new_plan = self._ask_ai_for_navigation_plan(...); self._execute_navigation_plan(new_plan)
        below(country_loads, loads) ==
            [universities |-> sub.universities, country_loads |-> country_loads,
             loads |-> loads + sub.loads, asked |-> 1 + sub.asked]
        failed(country_loads, loads) ==
            [universities |-> <<>>, country_loads |-> country_loads, loads |-> loads, asked |-> 0]
    IN IF plans = <<>> \/ ~IsDict(plan) THEN nothing
       ELSE IF next_action = Name("extract_data") /\ AITruthy(Get(plan, "extracted_data", AINone))
       THEN [nothing EXCEPT !.universities = IF plan.at["extracted_data"].kind = "list"
                                             THEN plan.at["extracted_data"].items ELSE <<>>]
       ELSE IF next_action = Name("navigate_to_link") /\ AITruthy(Get(plan, "target_url", AINone))
       THEN IF env.get = "raises" THEN failed(0, 1)
            ELSE below(0, 1)
       ELSE IF next_action = Name("find_universities_page") /\ AITruthy(Get(plan, "target_selector", AINone))
       THEN IF plan.at["target_selector"] \in InvalidSelectors
            THEN \* the direct country URL is loaded in the try block ...
                 IF env.get = "ok"
                 THEN below(1, 1)
                 \* ... and once more in the except clause when that raised
                 ELSE IF env.fallback_get = "ok"
                 THEN below(2, 2)
                 ELSE failed(2, 2)
            ELSE IF env.click = "ok"
                 THEN below(0, 1)
                 ELSE IF env.fallback_get = "ok"
                 THEN below(1, 1)
                 ELSE failed(1, 1)
       ELSE IF AITruthy(Get(plan, "university_links", AINone))
       THEN IF plan.at["university_links"].kind # "list" THEN nothing
            ELSE [nothing EXCEPT
                    !.universities = VisitLinks(Take(plan.at["university_links"].items, PlanLinkCap), env),
                    !.loads = Len(Take(plan.at["university_links"].items, PlanLinkCap))]
       ELSE nothing

NavigationOutput(result) ==
    [raised |-> FALSE,
     ret |-> AIDict(("universities" :> AIList(result.universities))
                    @@ ("total_found" :> Name(ToString(Len(result.universities))))),
     country_loads |-> result.country_loads,
     loads |-> result.loads,
     asked |-> result.asked]

ExecuteNavigationPlan ==
    /\ p_pc = "start" /\ p_fn = "_execute_navigation_plan"
    /\ p_out' = NavigationOutput(_execute_navigation_plan(p_in.plans, p_in.env))
    /\ p_pc' = "done"
    /\ UNCHANGED <<p_fn, p_in, sanVars, wVars, lVars, rVars, eVars>>

\* -------- how long a navigation goes on
\* plans that ask for another page and another plan
NavigatingPlans == {NavigatePlan, ClickPlan, InvalidSelectorPlan}
NavigationDone == p_pc = "done" /\ p_fn = "_execute_navigation_plan"
\* the replies that ask to go on, counted from the first
RECURSIVE LeadingNavigations(_)
LeadingNavigations(plans) ==
    IF plans = <<>> \/ Head(plans) \notin NavigatingPlans THEN 0
    ELSE 1 + LeadingNavigations(Tail(plans))

NavigationAsLongAsAsked ==
    (NavigationDone /\ p_in.env.get = "ok" /\ p_in.env.click = "ok") =>
        /\ p_out.asked = LeadingNavigations(p_in.plans)
        /\ p_out.loads >= LeadingNavigations(p_in.plans)

\* every reply asked to go to a link: each was followed
EveryReplyFollowed ==
    /\ NavigationDone /\ Len(p_in.plans) = MaxDepth
    /\ \A i \in 1..MaxDepth : p_in.plans[i] = NavigatePlan
    /\ p_in.env.get = "ok"
    /\ p_out.asked = MaxDepth /\ p_out.loads = MaxDepth

\* C15: nothing is retried: one call of _execute_navigation_plan loads the
\* direct country URL at most once, and extract_university_data makes at most
\* one follow-up request after the first.
C15_AtMostOneFallback ==
    /\ (p_pc = "done" /\ p_fn = "_execute_navigation_plan" => p_out.country_loads <= 1)
    /\ (p_pc = "done" /\ p_fn = "extract_university_data" => p_out.calls <= 2)

\* the part about extract_university_data alone
AtMostOneFollowUp ==
    (p_pc = "done" /\ p_fn = "extract_university_data") => p_out.calls <= 2

\* the part about main(): the sitemap is fetched at most once per country
SitemapFetchedAtMostOnce == r_prog = "main" => r_cur.fetches <= 1

\* -------- what is done with the text of a reply
\* the values extract_university_data handed to _count_extracted_programs
CountedValues == {p_out.counted[i] : i \in 1..Len(p_out.counted)}

\* C20: every LLM reply has its fence markers stripped and is parsed as JSON
\* before its content is used as record data: no extractor counts the programs
\* of, or returns as a record, the text of a reply.
C20_RepliesParsedBeforeUse ==
    (p_pc = "done" /\ p_fn \in AIExtractors) =>
        /\ p_out.ret.kind # "str"
        /\ (p_fn = "extract_university_data" => \A v \in CountedValues : v.kind # "str")

\* FinalAIScraper and AINavigator return a record only when the reply, fences
\* stripped, parsed as a JSON object, and then that object with the two stamps
RepliesParsedInFinalAndNavigator ==
    (/\ p_pc = "done" /\ p_fn \in {"_extract_university_data_with_ai", "_extract_university_data"}
     /\ p_out.ret # EmptyAIDict)
    => /\ HoldsRecord(p_in.outcome)
       /\ \A key \in DOMAIN RecordOf(p_in.outcome).value.at :
             Get(p_out.ret, key, AINone) = RecordOf(p_in.outcome).value.at[key]

\* a fenced record is the first reply: its text is counted as it came, with
\* the fences on, and gives no programs
FencedReplyCountedRaw ==
    /\ p_pc = "done" /\ p_fn = "extract_university_data"
    /\ p_in[1] = Content(<<FenceJson, "\n", "{partial}", "\n", Fence>>)
    /\ p_out.counted # <<>> /\ p_out.counted[1] = AIStr(p_in[1].text)
    /\ _count_extracted_programs(p_out.counted[1]) = 0
    /\ _count_extracted_programs(RecordOf(p_in[1]).value) > 0

\* -------- extract_country_from_url
\* URLs whose path is /en/universities_{slug}_ab
CountryUrlInputs == {TurkeyUrl, NewZealandUrl}

ExtractCountryFromUrl ==
    /\ p_pc = "start" /\ p_fn = "extract_country_from_url"
    /\ p_out' = [raised |-> FALSE, ret |-> extract_country_from_url(p_in)]
    /\ p_pc' = "done"
    /\ UNCHANGED <<p_fn, p_in, sanVars, wVars, lVars, rVars, eVars>>

\* the slug of such a URL: what stands between universities_ and _ab
SlugOf(url) ==
    LET text == PieceText[url[Len(url)]]
    IN SubSeq(text, Len(UniversitiesPrefix) + 1, Len(text) - 3)

\* C26: for a URL whose path is /en/universities_{slug}_ab,
\* extract_country_from_url returns the slug with underscores replaced by
\* spaces and each word capitalized, also for a slug that holds underscores
\* (new_zealand gives "New Zealand").
C26_CountryNameFromSlug ==
    (p_pc = "done" /\ p_fn = "extract_country_from_url") =>
        p_out.ret = Title(ReplaceWithSpace(SlugOf(p_in), {"_"}))

\* a slug of one word is named as the claim says
OneWordSlugNamed ==
    (p_pc = "done" /\ p_fn = "extract_country_from_url" /\ "_" \notin Range(SlugOf(p_in)))
        => p_out.ret = Title(SlugOf(p_in))

\* new_zealand: the pattern does not match and the last path part is titled
NewZealandNamedFromPath ==
    /\ p_pc = "done" /\ p_fn = "extract_country_from_url" /\ p_in = NewZealandUrl
    /\ p_out.ret = <<"U", "n", "i", "v", "e", "r", "s", "i", "t", "i", "e", "s", " ", "N", "e", "w",
                     " ", "Z", "e", "a", "l", "a", "n", "d", " ", "A", "b">>

\* -------- the --countries filter of main()
\* --countries tur; --countries germany,turkey
FilterArgs ==
    MainArgs \cup { [all |-> FALSE, requested |-> <<<<"t", "u", "r">>>>],
                    [all |-> FALSE, requested |-> <<<<"g", "e", "r", "m", "a", "n", "y">>,
                                                    <<"t", "u", "r", "k", "e", "y">>>>] }
FilterInputs ==
    {[country_urls |-> l, args |-> a] :
        l \in UNION {CountryUrlListsOfLen(n) : n \in 0..MaxCountries}, a \in FilterArgs}

FilterCountryUrls ==
    /\ p_pc = "start" /\ p_fn = "filter_country_urls"
    /\ p_out' = [raised |-> FALSE, ret |-> filter_country_urls(p_in.country_urls, p_in.args)]
    /\ p_pc' = "done"
    /\ UNCHANGED <<p_fn, p_in, sanVars, wVars, lVars, rVars, eVars>>

\* the URL-derived name of the country is one of the requested names
NameRequested(country_url, requested) ==
    Lower(extract_country_from_url(country_url)) \in Range(requested)

\* C25: with --countries other than "all", main() processes exactly the
\* discovered countries whose URL-derived name equals, case-insensitively, one
\* of the requested names, in discovery order; with "all" it processes every
\* discovered country.
C25_ExactlyRequestedCountries ==
    (p_pc = "done" /\ p_fn = "filter_country_urls") =>
        p_out.ret = IF p_in.args.all THEN p_in.country_urls
                    ELSE SelectSeq(p_in.country_urls,
                                   LAMBDA u : NameRequested(u, p_in.args.requested))

\* "all" keeps the list; otherwise what is kept comes from the list and holds
\* every country whose name was requested
FilterKeepsRequested ==
    (p_pc = "done" /\ p_fn = "filter_country_urls") =>
        /\ (p_in.args.all => p_out.ret = p_in.country_urls)
        /\ Range(p_out.ret) \subseteq Range(p_in.country_urls)
        /\ \A i \in 1..Len(p_in.country_urls) :
              (~p_in.args.all /\ NameRequested(p_in.country_urls[i], p_in.args.requested))
                  => p_in.country_urls[i] \in Range(p_out.ret)

\* --countries tur keeps Turkey, whose name is not "tur"
PartOfNameKeepsCountry ==
    /\ p_pc = "done" /\ p_fn = "filter_country_urls"
    /\ p_in.args.requested = <<<<"t", "u", "r">>>> /\ p_in.country_urls = <<TurkeyUrl>>
    /\ p_out.ret = <<TurkeyUrl>>

\* -------- main(): the city and the name a record is saved under
\* a record given by five fields, each "absent", empty or a text: main_info.city,
\* main_info.quick_facts.city, main_info.quick_facts.location, university_name,
\* main_info.name
Entry(key, text) == IF text = "absent" THEN <<>> ELSE key :> PyStr(text)
FieldRecord(f) ==
    LET quick_facts == Entry("city", f.qcity) @@ Entry("location", f.qloc)
        main_info == Entry("city", f.city) @@ Entry("name", f.mname)
                     @@ (IF DOMAIN quick_facts = {} THEN <<>>
                         ELSE "quick_facts" :> PyDict(quick_facts))
    IN PyDict(Entry("university_name", f.uname)
              @@ (IF DOMAIN main_info = {} THEN <<>> ELSE "main_info" :> PyDict(main_info)))
FieldChoices == [city : {"absent", "", "Ankara"}, qcity : {"absent", "", "Izmir"},
                 qloc : {"absent", "Bursa"}, uname : {"absent", "", "Bilkent University"},
                 mname : {"absent", "Koc"}]
\* extraction returned nothing; main_info is null
OddRecords == {PyNone, EmptyDict, PyDict("main_info" :> PyNone)}
FieldUrls == {KocUrl, Host \o <<"en", "countries", "universities_turkey_ab">>, Host \o <<"en">>}
FieldInputs == {[fields |-> f, record |-> FieldRecord(f), uni_url |-> u] : f \in FieldChoices, u \in FieldUrls}
               \cup {[fields |-> [city |-> "absent", qcity |-> "absent", qloc |-> "absent",
                                  uname |-> "absent", mname |-> "absent"],
                       record |-> rec, uni_url |-> u] : rec \in OddRecords, u \in FieldUrls}

ChooseCityAndName ==
    /\ p_pc = "start" /\ p_fn = "main_city_and_name"
    /\ p_out' = [raised |-> FALSE, city |-> save_city(p_in.record),
                 uni_name |-> save_uni_name(p_in.record, p_in.uni_url)]
    /\ p_pc' = "done"
    /\ UNCHANGED <<p_fn, p_in, sanVars, wVars, lVars, rVars, eVars>>

\* the first of the texts that is there and not empty, else the default
FirstNonEmpty(texts, default) ==
    LET at == {i \in 1..Len(texts) : texts[i] \notin {"absent", ""}}
    IN IF at = {} THEN default
       ELSE RecordText[texts[CHOOSE i \in at : \A j \in at : i <= j]]

\* C18: main() saves a record under the first non-empty of extracted city,
\* quick-facts city, quick-facts location, else "Unknown", and under the first
\* non-empty of the extracted names, else the name made from the URL; neither
\* is ever empty, also when the extraction returned nothing.
C18_FirstNonEmptyFallback ==
    (p_pc = "done" /\ p_fn = "main_city_and_name") =>
        /\ p_out.city = FirstNonEmpty(<<p_in.fields.city, p_in.fields.qcity, p_in.fields.qloc>>,
                                      Unknown)
        /\ p_out.uni_name = FirstNonEmpty(<<p_in.fields.uname, p_in.fields.mname>>,
                                          extract_university_name_from_url(p_in.uni_url))
        /\ p_out.city # <<>> /\ p_out.uni_name # <<>>

\* extract_all returned None: the city is "Unknown", the name comes from the URL
C18_Witness ==
    /\ p_pc = "done" /\ p_fn = "main_city_and_name"
    /\ p_in.record = PyNone /\ p_in.uni_url = KocUrl
    /\ p_out.city = Unknown
    /\ p_out.uni_name = <<"K", "o", "c", " ", "U", "n", "i", "v", "e", "r", "s", "i", "t", "y">>

\* the city was empty in main_info and came from quick_facts.location
QuickFactsLocationWitness ==
    /\ p_pc = "done" /\ p_fn = "main_city_and_name"
    /\ p_in.fields.city = "" /\ p_in.fields.qcity = "" /\ p_in.fields.qloc = "Bursa"
    /\ p_out.city = RecordText["Bursa"]

(***************************************************************************)
NoCall == [country |-> <<>>, city |-> <<>>, uni_name |-> <<>>, data |-> Rec1,
           failed |-> "none", ret |-> "none", path |-> <<>>]

InitSanitize ==
    /\ s_pc = "start" /\ s_in \in SanInputs /\ s_out = <<>>
    /\ w_files = <<>> /\ w_dirs = {} /\ w_n = 0 /\ w_call = NoCall /\ w_good = <<>>
    /\ l_pc = "idle" /\ l_fn = "none" /\ l_page = <<>> /\ l_scan = "ok" /\ l_result = <<>>
    /\ r_prog = "none" /\ r_pc = "idle" /\ r_driver = "none" /\ r_quits = 0 /\ r_loads = 0
    /\ r_late = 0 /\ r_outcome = "running" /\ r_exc = "none" /\ r_countries = <<>>
    /\ r_ci = 1 /\ r_cur = NoInfo /\ r_links = <<>> /\ r_ui = 1 /\ r_last = NoLast
    /\ r_files = <<>> /\ r_dirs = {} /\ r_results = <<>> /\ r_total = 0
    /\ r_summary = NoSummary /\ r_sitemap = <<>> /\ r_tried = <<>>
    /\ p_pc = "idle" /\ p_fn = "none" /\ p_in = <<>> /\ p_out = <<>>
    /\ e_self = [logged |-> 0] /\ e_calls = <<>>

\* DataWriter.__init__ has created the base directory
InitWriter ==
    /\ s_pc = "idle" /\ s_in = <<>> /\ s_out = <<>>
    /\ w_files = <<>> /\ w_dirs = {base_output_path} /\ w_n = 0 /\ w_call = NoCall
    /\ w_good = <<>>
    /\ l_pc = "idle" /\ l_fn = "none" /\ l_page = <<>> /\ l_scan = "ok" /\ l_result = <<>>
    /\ r_prog = "none" /\ r_pc = "idle" /\ r_driver = "none" /\ r_quits = 0 /\ r_loads = 0
    /\ r_late = 0 /\ r_outcome = "running" /\ r_exc = "none" /\ r_countries = <<>>
    /\ r_ci = 1 /\ r_cur = NoInfo /\ r_links = <<>> /\ r_ui = 1 /\ r_last = NoLast
    /\ r_files = <<>> /\ r_dirs = {} /\ r_results = <<>> /\ r_total = 0
    /\ r_summary = NoSummary /\ r_sitemap = <<>> /\ r_tried = <<>>
    /\ p_pc = "idle" /\ p_fn = "none" /\ p_in = <<>> /\ p_out = <<>>
    /\ e_self = [logged |-> 0] /\ e_calls = <<>>

InitLinks ==
    /\ s_pc = "idle" /\ s_in = <<>> /\ s_out = <<>>
    /\ w_files = <<>> /\ w_dirs = {} /\ w_n = 0 /\ w_call = NoCall /\ w_good = <<>>
    /\ l_pc = "start" /\ l_fn = "none" /\ l_page \in Pages /\ l_scan \in {"ok", "fails"}
    /\ l_result = <<>>
    /\ r_prog = "none" /\ r_pc = "idle" /\ r_driver = "none" /\ r_quits = 0 /\ r_loads = 0
    /\ r_late = 0 /\ r_outcome = "running" /\ r_exc = "none" /\ r_countries = <<>>
    /\ r_ci = 1 /\ r_cur = NoInfo /\ r_links = <<>> /\ r_ui = 1 /\ r_last = NoLast
    /\ r_files = <<>> /\ r_dirs = {} /\ r_results = <<>> /\ r_total = 0
    /\ r_summary = NoSummary /\ r_sitemap = <<>> /\ r_tried = <<>>
    /\ p_pc = "idle" /\ p_fn = "none" /\ p_in = <<>> /\ p_out = <<>>
    /\ e_self = [logged |-> 0] /\ e_calls = <<>>

\* the three programs at their first statement; FinalAIScraper.__init__ has
\* created the session of the final scraper
InitRun ==
    /\ s_pc = "idle" /\ s_in = <<>> /\ s_out = <<>>
    /\ w_files = <<>> /\ w_dirs = {} /\ w_n = 0 /\ w_call = NoCall /\ w_good = <<>>
    /\ l_pc = "idle" /\ l_fn = "none" /\ l_page = <<>> /\ l_scan = "ok" /\ l_result = <<>>
    /\ r_prog \in {"global", "main", "final", "ainav"}
    /\ r_pc = (CASE r_prog = "global" -> "g_setup"
                 [] r_prog = "main" -> "m_construct"
                 [] r_prog = "final" -> "f_start"
                 [] OTHER -> "a_start")
    /\ r_driver = (IF r_prog \in {"final", "ainav"} THEN "open" ELSE "none")
    /\ r_quits = 0 /\ r_loads = 0 /\ r_late = 0 /\ r_outcome = "running" /\ r_exc = "none"
    /\ r_sitemap \in (IF r_prog = "main" THEN Sitemaps ELSE {<<>>})
    /\ r_countries \in (CASE r_prog = "global" -> GlobalCountryLists
                          [] r_prog = "main" -> MainCountryLists(r_sitemap)
                          [] OTHER -> {<<>>})
    /\ r_ci = 1
    /\ r_cur = NoInfo
    /\ r_links = <<>> /\ r_ui = 1 /\ r_last = NoLast
    /\ r_files = <<>> /\ r_dirs = {} /\ r_results = <<>> /\ r_total = 0
    /\ r_summary = NoSummary /\ r_tried = <<>>
    /\ p_pc = "idle" /\ p_fn = "none" /\ p_in = <<>> /\ p_out = <<>>
    /\ e_self = [logged |-> 0] /\ e_calls = <<>>

RunNext ==
    \/ GSetup \/ GCountry \/ GSummary \/ GFinally
    \/ MConstruct \/ MOpenHome \/ MDiscoverCountries \/ MOpenCountry \/ MProcessUniversity
    \/ MNextCountry \/ MDone \/ MFinally
    \/ FLoad \/ FProcess \/ FReturn \/ FFinally
    \/ ALoad \/ AProcess \/ AReturn \/ AFinally

SpecSanitize == InitSanitize /\ [][Sanitize]_vars

SpecWriter == InitWriter /\ [][Save]_vars

SpecLinks == InitLinks /\ [][LinksNext]_vars

SpecRun == InitRun /\ [][RunNext]_vars

CallFns == AIExtractors \cup {"_merge_missing_programs", "_execute_navigation_plan",
                             "main_city_and_name", "extract_country_from_url",
                             "filter_country_urls"}

InitCalls ==
    /\ s_pc = "idle" /\ s_in = <<>> /\ s_out = <<>>
    /\ w_files = <<>> /\ w_dirs = {} /\ w_n = 0 /\ w_call = NoCall /\ w_good = <<>>
    /\ l_pc = "idle" /\ l_fn = "none" /\ l_page = <<>> /\ l_scan = "ok" /\ l_result = <<>>
    /\ r_prog = "none" /\ r_pc = "idle" /\ r_driver = "none" /\ r_quits = 0 /\ r_loads = 0
    /\ r_late = 0 /\ r_outcome = "running" /\ r_exc = "none" /\ r_countries = <<>>
    /\ r_ci = 1 /\ r_cur = NoInfo /\ r_links = <<>> /\ r_ui = 1 /\ r_last = NoLast
    /\ r_files = <<>> /\ r_dirs = {} /\ r_results = <<>> /\ r_total = 0
    /\ r_summary = NoSummary /\ r_sitemap = <<>> /\ r_tried = <<>>
    /\ p_pc = "start" /\ p_fn \in CallFns
    /\ p_in \in CASE p_fn = "extract_university_data" -> ReplySeqs
                [] p_fn = "_extract_university_data_with_ai" -> ExtractInputs
                [] p_fn = "_extract_university_data" -> ExtractInputs
                [] p_fn = "_merge_missing_programs" -> MergeInputs
                [] p_fn = "_execute_navigation_plan" -> PlanInputs
                [] p_fn = "main_city_and_name" -> FieldInputs
                [] p_fn = "extract_country_from_url" -> CountryUrlInputs
                [] p_fn = "filter_country_urls" -> FilterInputs
    /\ p_out = <<>>
    /\ e_self = [logged |-> 0] /\ e_calls = <<>>

CallsNext ==
    \/ ExtractUniversityData
    \/ FinalExtractWithAI
    \/ AINavigatorExtract
    \/ MergeMissingPrograms
    \/ ExecuteNavigationPlan
    \/ ChooseCityAndName
    \/ ExtractCountryFromUrl
    \/ FilterCountryUrls

SpecCalls == InitCalls /\ [][CallsNext]_vars

(***************************************************************************)
(* Page loads and pauses of run_global_scraper, of                         *)
(* FinalAIScraper.scrape_universities and of discover_countries_via_search *)
(*                                                                         *)
(* p_in is the number of countries, links or country codes; p_out holds    *)
(* the position in the loop and the loads (driver.get) and pauses          *)
(* (time.sleep) issued so far, in order.                                   *)
(***************************************************************************)
MaxItems == 4
PauseFns == {"run_global_scraper", "scrape_universities", "discover_countries_via_search"}
NoEvents == [i |-> 1, u |-> 1, events |-> <<>>]
\* the links processed: unique_links[:5]
Processed(n) == IF n < FinalCap THEN n ELSE FinalCap

\* one pass of the loop of run_global_scraper: scrape_country_universities
\* loads the page and sleeps 2 s unless the load or the wait raised; the pass
\* ends with time.sleep(1), unless writing the country file raised
GlobalCountryPass ==
    /\ p_pc = "loop" /\ p_fn = "run_global_scraper" /\ p_out.i <= p_in
    /\ \E loaded \in BOOLEAN, saved \in BOOLEAN :
          LET scraped == p_out.events \o <<"load">> \o (IF loaded THEN <<"pause">> ELSE <<>>)
          IN IF saved
             THEN /\ p_out' = [p_out EXCEPT !.events = scraped \o <<"pause">>, !.i = @ + 1]
                  /\ p_pc' = "loop"
             ELSE /\ loaded
                  /\ p_out' = [p_out EXCEPT !.events = scraped]
                  /\ p_pc' = "done"
    /\ UNCHANGED <<p_fn, p_in, sanVars, wVars, lVars, rVars, eVars>>

\* scrape_universities: the universities page is loaded, then time.sleep(5);
\* a load or a wait that raised ends the call
FinalOpen ==
    /\ p_pc = "start" /\ p_fn = "scrape_universities"
    /\ \E loaded \in BOOLEAN :
          IF loaded
          THEN /\ p_out' = [p_out EXCEPT !.events = @ \o <<"load", "pause">>]
               /\ p_pc' = "loop"
          ELSE /\ p_out' = [p_out EXCEPT !.events = @ \o <<"load">>]
               /\ p_pc' = "done"
    /\ UNCHANGED <<p_fn, p_in, sanVars, wVars, lVars, rVars, eVars>>

\* one pass over unique_links[:5]: driver.get(uni_url), then time.sleep(2);
\* when the load raised the except clause prints and the next pass begins
FinalUniversityPass ==
    /\ p_pc = "loop" /\ p_fn = "scrape_universities" /\ p_out.i <= Processed(p_in)
    /\ \E loaded \in BOOLEAN :
          p_out' = [p_out EXCEPT !.events = @ \o <<"load">> \o (IF loaded THEN <<"pause">> ELSE <<>>),
                                 !.i = @ + 1]
    /\ p_pc' = "loop"
    /\ UNCHANGED <<p_fn, p_in, sanVars, wVars, lVars, rVars, eVars>>

\* discover_countries_via_search: one URL of urls_to_try is loaded; a page
\* that names universities ends the inner loop, any other outcome goes on
\* with the next URL
DiscoverTryUrl ==
    /\ p_pc = "loop" /\ p_fn = "discover_countries_via_search" /\ p_out.i <= p_in
    /\ \E found \in BOOLEAN :
          p_out' = IF found \/ p_out.u = 2
                   THEN [p_out EXCEPT !.events = @ \o <<"load">>, !.i = @ + 1, !.u = 1]
                   ELSE [p_out EXCEPT !.events = @ \o <<"load">>, !.u = 2]
    /\ p_pc' = "loop"
    /\ UNCHANGED <<p_fn, p_in, sanVars, wVars, lVars, rVars, eVars>>

\* the loop of run_global_scraper or discover_countries_via_search begins
PausesEnterLoop ==
    /\ p_pc = "start" /\ p_fn \in {"run_global_scraper", "discover_countries_via_search"}
    /\ p_pc' = "loop"
    /\ UNCHANGED <<p_out, p_fn, p_in, sanVars, wVars, lVars, rVars, eVars>>

\* the loop is exhausted
PausesReturn ==
    /\ p_pc = "loop" /\ p_fn \in PauseFns
    /\ p_out.i > IF p_fn = "scrape_universities" THEN Processed(p_in) ELSE p_in
    /\ p_pc' = "done"
    /\ UNCHANGED <<p_out, p_fn, p_in, sanVars, wVars, lVars, rVars, eVars>>

PausesNext ==
    \/ GlobalCountryPass \/ FinalOpen \/ FinalUniversityPass
    \/ DiscoverTryUrl \/ PausesEnterLoop \/ PausesReturn

\* between any two loads there is a pause
PauseBeforeEveryNextLoad(events) ==
    \A k \in 2..Len(events) : events[k] = "load" => events[k - 1] = "pause"

\* C22: in run_global_scraper, FinalAIScraper.scrape_universities and
\* discover_countries_via_search every page load is followed by a pause
\* before the next page load is issued, on every path, failed loads included.
C22_PauseAfterEveryLoad ==
    p_fn \in PauseFns => PauseBeforeEveryNextLoad(p_out.events)

\* run_global_scraper alone: time.sleep(1) closes every pass of the loop
GlobalPausesBetweenLoads ==
    p_fn = "run_global_scraper" => PauseBeforeEveryNextLoad(p_out.events)

\* scrape_universities: the load of the universities page is always followed
\* by its pause; two loads in a row happen only inside the loop
FinalPausesAfterGoodLoads ==
    p_fn = "scrape_universities" =>
        \A k \in 2..Len(p_out.events) :
            (p_out.events[k] = "load" /\ p_out.events[k - 1] = "load") => k > 3

\* two university pages requested one after the other, the first load raised
FinalLoadsBackToBack ==
    /\ p_fn = "scrape_universities" /\ p_in = 2 /\ p_pc = "done"
    /\ p_out.events = <<"load", "pause", "load", "load", "pause">>

\* discover_countries_via_search never pauses
DiscoverNeverPauses ==
    /\ p_fn = "discover_countries_via_search" /\ p_pc = "done" /\ p_in = 2
    /\ p_out.events = <<"load", "load", "load">>

InitPaging ==
    /\ s_pc = "idle" /\ s_in = <<>> /\ s_out = <<>>
    /\ w_files = <<>> /\ w_dirs = {} /\ w_n = 0 /\ w_call = NoCall /\ w_good = <<>>
    /\ l_pc = "idle" /\ l_fn = "none" /\ l_page = <<>> /\ l_scan = "ok" /\ l_result = <<>>
    /\ r_prog = "none" /\ r_pc = "idle" /\ r_driver = "none" /\ r_quits = 0 /\ r_loads = 0
    /\ r_late = 0 /\ r_outcome = "running" /\ r_exc = "none" /\ r_countries = <<>>
    /\ r_ci = 1 /\ r_cur = NoInfo /\ r_links = <<>> /\ r_ui = 1 /\ r_last = NoLast
    /\ r_files = <<>> /\ r_dirs = {} /\ r_results = <<>> /\ r_total = 0
    /\ r_summary = NoSummary /\ r_sitemap = <<>> /\ r_tried = <<>>
    /\ p_pc = "start" /\ p_fn = "navigate_degree_programs"
    /\ p_in \in 0..MaxTotal
    /\ p_out = NoPaging
    /\ e_self = [logged |-> 0] /\ e_calls = <<>>

\* every statement of the call is executed in turn
SpecPaging == InitPaging /\ [][PagingNext]_vars /\ WF_vars(PagingNext)

InitPauses ==
    /\ s_pc = "idle" /\ s_in = <<>> /\ s_out = <<>>
    /\ w_files = <<>> /\ w_dirs = {} /\ w_n = 0 /\ w_call = NoCall /\ w_good = <<>>
    /\ l_pc = "idle" /\ l_fn = "none" /\ l_page = <<>> /\ l_scan = "ok" /\ l_result = <<>>
    /\ r_prog = "none" /\ r_pc = "idle" /\ r_driver = "none" /\ r_quits = 0 /\ r_loads = 0
    /\ r_late = 0 /\ r_outcome = "running" /\ r_exc = "none" /\ r_countries = <<>>
    /\ r_ci = 1 /\ r_cur = NoInfo /\ r_links = <<>> /\ r_ui = 1 /\ r_last = NoLast
    /\ r_files = <<>> /\ r_dirs = {} /\ r_results = <<>> /\ r_total = 0
    /\ r_summary = NoSummary /\ r_sitemap = <<>> /\ r_tried = <<>>
    /\ p_pc = "start" /\ p_fn \in PauseFns
    /\ p_in \in 0..MaxItems
    /\ p_out = NoEvents
    /\ e_self = [logged |-> 0] /\ e_calls = <<>>

SpecPauses == InitPauses /\ [][PausesNext]_vars

InitExtractor ==
    /\ s_pc = "idle" /\ s_in = <<>> /\ s_out = <<>>
    /\ w_files = <<>> /\ w_dirs = {} /\ w_n = 0 /\ w_call = NoCall /\ w_good = <<>>
    /\ l_pc = "idle" /\ l_fn = "none" /\ l_page = <<>> /\ l_scan = "ok" /\ l_result = <<>>
    /\ r_prog = "none" /\ r_pc = "idle" /\ r_driver = "none" /\ r_quits = 0 /\ r_loads = 0
    /\ r_late = 0 /\ r_outcome = "running" /\ r_exc = "none" /\ r_countries = <<>>
    /\ r_ci = 1 /\ r_cur = NoInfo /\ r_links = <<>> /\ r_ui = 1 /\ r_last = NoLast
    /\ r_files = <<>> /\ r_dirs = {} /\ r_results = <<>> /\ r_total = 0
    /\ r_summary = NoSummary /\ r_sitemap = <<>> /\ r_tried = <<>>
    /\ p_pc = "idle" /\ p_fn = "none" /\ p_in = <<>> /\ p_out = <<>>
    /\ e_self = [logged |-> 0] /\ e_calls = <<>>

ExtractorNext ==
    \/ ExtractCommonInfo
    \/ ExtractProgramInfo

SpecExtractor == InitExtractor /\ [][ExtractorNext]_vars

====
